---- MODULE Spec2Model ----
(***************************************************************************)
(* Model of deep-project-researcher: the Reference Store                   *)
(* (lib/reference-manager.ts), the Query Constructor, Relevance Scorer and *)
(* similar-project search (lib/research-engine.ts), the Project Analyzer   *)
(* (lib/project-analyzer.ts), the context-aware suggestions                *)
(* (lib/config.ts) and the session.created handler (index.ts).             *)
(*                                                                         *)
(* Time is counted in whole days.  A string the code lower-cases or        *)
(* searches in is a sequence of one-character strings; a url is only ever  *)
(* compared for equality and stays an atomic string.  An optional value    *)
(* (undefined, NaN, no data, no error) is a sequence of length 0 or 1.     *)
(***************************************************************************)
EXTENDS Integers, Sequences, FiniteSets, TLC

VARIABLES
  file,   \* the backing document .opencode/references.json
  now,    \* the wall clock, in days
  ret,    \* the last call: operation, inputs, I/O conditions, returned Result
  pc,     \* concurrent invocations: position of each invocation
  loc     \* concurrent invocations: locals of each invocation

vars == <<file, now, ret, pc, loc>>

----------------------------------------------------------------------------
(* Bounds of the model *)

MaxRefs == 3      \* longest reference list a document holds
MaxNew == 2       \* longest list handed to addReferences
MaxDays == 1      \* days that pass while the model runs
StartDay == 100   \* the day the model starts

----------------------------------------------------------------------------
(* Strings: String.prototype.toLowerCase and String.prototype.includes *)

UpperChars == <<"A","B","C","D","E","F","G","H","I","J","K","L","M",
                "N","O","P","Q","R","S","T","U","V","W","X","Y","Z">>
LowerChars == <<"a","b","c","d","e","f","g","h","i","j","k","l","m",
                "n","o","p","q","r","s","t","u","v","w","x","y","z">>

ToLowerChar(c) ==
  IF \E i \in 1..Len(UpperChars) : UpperChars[i] = c
  THEN LowerChars[CHOOSE i \in 1..Len(UpperChars) : UpperChars[i] = c]
  ELSE c

ToLowerCase(s) == [i \in 1..Len(s) |-> ToLowerChar(s[i])]

Includes(s, sub) ==
  \E i \in 0..(Len(s) - Len(sub)) : SubSeq(s, i + 1, i + Len(sub)) = sub

Range(seq) == {seq[i] : i \in 1..Len(seq)}

----------------------------------------------------------------------------
(* Timestamps: Date.prototype.toISOString and new Date(string).            *)
(* A timestamp string is valid (it names day t) or unparseable.            *)

ToISOString(t) == [valid |-> TRUE, t |-> t]
NotADate == [valid |-> FALSE, t |-> 0]

\* new Date(s).getTime(): <<t>>, or <<>> for NaN (Invalid Date; no exception)
DateParse(s) == IF s.valid THEN <<s.t>> ELSE <<>>

\* a >= b on two Date values: false as soon as one side is NaN
DateGE(a, b) == a # <<>> /\ b # <<>> /\ a[1] >= b[1]

----------------------------------------------------------------------------
(* The words used by the sample references and criteria *)

wReact == <<"R","e","a","c","t">>
wreact == <<"r","e","a","c","t">>
wVue == <<"V","u","e">>
wTs == <<"t","s">>
wRouting == <<"r","o","u","t","i","n","g">>
wApi == <<"a","p","i">>
wFramework == <<"f","r","a","m","e","w","o","r","k">>
wTool == <<"t","o","o","l">>
wNext == <<"n","e","x","t">>
wKit == <<"r","e","a","c","t"," ","k","i","t">>
wNuxt == <<"n","u","x","t">>
wOld == <<"o","l","d">>
wEmpty == <<>>
wTypescript == <<"t","y","p","e","s","c","r","i","p","t">>

UrlA == "https://github.com/a/a"
UrlB == "https://github.com/b/b"

\* Reference (types.ts); the optional stars, notes and tags are left out:
\* the store never reads them.
MkRef(url, name, description, techStack, features, domain, score, lastUpdated) ==
  [url |-> url, platform |-> "github", name |-> name, description |-> description,
   techStack |-> techStack, features |-> features, domain |-> domain,
   relevanceScore |-> score, lastUpdated |-> lastUpdated]

\* updated today
RefA == MkRef(UrlA, wNext, wEmpty, <<wReact, wTs>>, <<wRouting>>, wFramework,
              80, ToISOString(StartDay))
\* same url as RefA, different content; its lastUpdated does not parse
RefA2 == MkRef(UrlA, wOld, wKit, <<wTs>>, <<wRouting, wApi>>, wFramework, 40, NotADate)
\* updated 90 days ago; ties with RefA on relevanceScore
RefB == MkRef(UrlB, wNuxt, wEmpty, <<wVue>>, <<wApi>>, wTool, 80, ToISOString(StartDay - 90))

RefPool == {RefA, RefA2, RefB}

\* all sequences over S of length at most n
SeqsUpTo(S, n) == UNION {[1..k -> S] : k \in 0..n}

----------------------------------------------------------------------------
(* Results and thrown values (types.ts) *)

\* a value thrown by fs or JSON.parse: always an instance of Error
Thrown(code) == [isError |-> TRUE, name |-> "Error", code |-> code, cause |-> <<>>]

\* error instanceof Error ? error : new ReferenceManagerError(String(error))
ToResultError(e) ==
  IF e.isError THEN e
  ELSE [isError |-> TRUE, name |-> "ReferenceManagerError", code |-> "", cause |-> <<>>]

Ok(d) == [success |-> TRUE, data |-> <<d>>, error |-> <<>>]
OkVoid == [success |-> TRUE, data |-> <<>>, error |-> <<>>]
Fail(e) == [success |-> FALSE, data |-> <<>>, error |-> <<ToResultError(e)>>]

----------------------------------------------------------------------------
(* The backing document and the file system *)

ProjectPath == "/project"

\* The document: absent, or a file with a content (JSON text that parses to
\* value[1], or text that does not parse) and permission bits.
Absent == [kind |-> "absent", value |-> <<>>, mode |-> "rw"]
Corrupt == [kind |-> "corrupt", value |-> <<>>, mode |-> "rw"]

Modes == {"rw", "r-", "-w", "--"}
Readable(f) == f.mode \in {"rw", "r-"}
Writable(f) == f.mode \in {"rw", "-w"}

\* JSON.stringify(data, null, 2): the text, which parses back to data
JSONStringify(data) == [kind |-> "json", value |-> <<data>>]

\* fs.writeFile(fullPath, text): creates the file, or replaces the content of
\* a writable one; EACCES on a file that is not writable
WriteFile(f, text) ==
  IF f.kind # "absent" /\ ~Writable(f)
  THEN [ok |-> FALSE, file |-> f]
  ELSE [ok |-> TRUE, file |-> [kind |-> text.kind, value |-> text.value, mode |-> f.mode]]

EmptyData(t) ==
  [projectPath |-> ProjectPath, currentTechStack |-> <<>>, references |-> <<>>,
   lastResearchDate |-> ToISOString(t)]

\* fs.readFile followed by JSON.parse: the parsed data, or the thrown value
ReadAndParse(f) ==
  IF f.kind = "absent" THEN [ok |-> FALSE, data |-> <<>>, thrown |-> <<Thrown("ENOENT")>>]
  ELSE IF ~Readable(f) THEN [ok |-> FALSE, data |-> <<>>, thrown |-> <<Thrown("EACCES")>>]
  ELSE IF f.kind = "corrupt" THEN [ok |-> FALSE, data |-> <<>>, thrown |-> <<Thrown("SyntaxError")>>]
  ELSE [ok |-> TRUE, data |-> f.value, thrown |-> <<>>]

\* mutant: the fallback branch returns the empty data without writing it
LoadReferencesNoPersist(f, t) ==
  LET r == ReadAndParse(f) IN
  IF r.ok THEN [file |-> f, res |-> Ok(r.data[1])]
  ELSE [file |-> f, res |-> Ok(EmptyData(t))]

\* loadReferences: the document after the call and the Result returned.
\* mkdir -p of the document's directory is taken to succeed.
LoadReferences(f, t) ==
  LET r == ReadAndParse(f) IN
  IF r.ok THEN [file |-> f, res |-> Ok(r.data[1])]
  ELSE \* inner catch: any error of readFile or of JSON.parse
    LET w == WriteFile(f, JSONStringify(EmptyData(t))) IN
    IF w.ok THEN [file |-> w.file, res |-> Ok(EmptyData(t))]
    ELSE [file |-> f, res |-> Fail(Thrown("EACCES"))]  \* outer catch

\* mutant: the save reads the document again and keeps what it holds
SaveReferencesMerging(f, data, t) ==
  LET current == IF f.kind = "json" THEN f.value[1].references ELSE <<>>
      merged == current \o SelectSeq(data.references, LAMBDA r :
                  \A i \in 1..Len(current) : current[i].url # r.url)
      w == WriteFile(f, JSONStringify([data EXCEPT !.references = merged,
                                                   !.lastResearchDate = ToISOString(t)]))
  IN IF w.ok THEN [file |-> w.file, res |-> OkVoid]
     ELSE [file |-> f, res |-> Fail(Thrown("EACCES"))]

\* mutant: the document is written with the lastResearchDate it was loaded with
SaveReferencesKeepingDate(f, data, t) ==
  LET w == WriteFile(f, JSONStringify(data)) IN
  IF w.ok THEN [file |-> w.file, res |-> OkVoid]
  ELSE [file |-> f, res |-> Fail(Thrown("EACCES"))]

\* saveReferences
SaveReferences(f, data, t) ==
  LET w == WriteFile(f, JSONStringify([data EXCEPT !.lastResearchDate = ToISOString(t)])) IN
  IF w.ok THEN [file |-> w.file, res |-> OkVoid]
  ELSE [file |-> f, res |-> Fail(Thrown("EACCES"))]

Urls(refs) == {refs[i].url : i \in 1..Len(refs)}

\* mutant: the incoming list is appended unfiltered
UniqueNewReferencesNoFilter(existing, newReferences) == newReferences

\* existingUrls and uniqueNewReferences of addReferences
UniqueNewReferences(existing, newReferences) ==
  SelectSeq(newReferences, LAMBDA r : r.url \notin Urls(existing))

\* mutant: the new references are put in front of the existing ones
AddUpdatedDataPrepend(currentData, newReferences) ==
  [currentData EXCEPT !.references =
     UniqueNewReferences(currentData.references, newReferences) \o currentData.references]

\* updatedData of addReferences
AddUpdatedData(currentData, newReferences) ==
  [currentData EXCEPT !.references =
     currentData.references \o UniqueNewReferences(currentData.references, newReferences)]

\* addReferences
AddReferences(f, newReferences, t) ==
  LET l == LoadReferences(f, t) IN
  IF ~l.res.success THEN l
  ELSE
    LET updatedData == AddUpdatedData(l.res.data[1], newReferences)
        s == SaveReferences(l.file, updatedData, t)
    IN IF ~s.res.success THEN s
       ELSE [file |-> s.file, res |-> Ok(updatedData)]

\* updatedData of updateTechStack
TechUpdatedData(currentData, techStack) ==
  [currentData EXCEPT !.currentTechStack = techStack]

\* updateTechStack
UpdateTechStack(f, techStack, t) ==
  LET l == LoadReferences(f, t) IN
  IF ~l.res.success THEN l
  ELSE SaveReferences(l.file, TechUpdatedData(l.res.data[1], techStack), t)

\* cutoffDate: now with maxAge days taken off
CutoffDate(t, maxAge) == <<t - maxAge>>

\* mutant: a reference updated exactly at the cutoff is dropped
ActiveReferencesAfterCutoff(references, cutoffDate) ==
  SelectSeq(references, LAMBDA r :
    DateGE(DateParse(r.lastUpdated), cutoffDate) /\ DateParse(r.lastUpdated) # cutoffDate)

\* the filter of cleanupReferences; new Date never throws, so the catch that
\* would keep a reference is never entered
ActiveReferences(references, cutoffDate) ==
  SelectSeq(references, LAMBDA r : DateGE(DateParse(r.lastUpdated), cutoffDate))

\* updatedData of cleanupReferences
CleanupUpdatedData(currentData, maxAge, t) ==
  [currentData EXCEPT !.references =
     ActiveReferences(currentData.references, CutoffDate(t, maxAge))]

\* cleanupReferences
CleanupReferences(f, maxAge, t) ==
  LET l == LoadReferences(f, t) IN
  IF ~l.res.success THEN l
  ELSE SaveReferences(l.file, CleanupUpdatedData(l.res.data[1], maxAge, t), t)

----------------------------------------------------------------------------
(* searchReferences *)

NoCriteria ==
  [query |-> <<>>, techStack |-> <<>>, features |-> <<>>, domain |-> <<>>,
   minRelevanceScore |-> <<>>]

\* if (criteria.query): undefined and "" are both falsy
FilterByQuery(refs, criteria) ==
  IF criteria.query # <<>> /\ criteria.query[1] # <<>>
  THEN LET queryLower == ToLowerCase(criteria.query[1]) IN
       SelectSeq(refs, LAMBDA ref :
         \/ Includes(ToLowerCase(ref.name), queryLower)
         \/ Includes(ToLowerCase(ref.description), queryLower)
         \/ \E tech \in Range(ref.techStack) : Includes(ToLowerCase(tech), queryLower)
         \/ \E feature \in Range(ref.features) : Includes(ToLowerCase(feature), queryLower)
         \/ Includes(ToLowerCase(ref.domain), queryLower))
  ELSE refs

\* if (criteria.techStack && criteria.techStack.length > 0)
FilterByTechStack(refs, criteria) ==
  IF criteria.techStack # <<>> /\ Len(criteria.techStack[1]) > 0
  THEN SelectSeq(refs, LAMBDA ref :
         \E targetTech \in Range(criteria.techStack[1]) :
           \E refTech \in Range(ref.techStack) :
             Includes(ToLowerCase(refTech), ToLowerCase(targetTech)))
  ELSE refs

\* if (criteria.features && criteria.features.length > 0)
FilterByFeatures(refs, criteria) ==
  IF criteria.features # <<>> /\ Len(criteria.features[1]) > 0
  THEN SelectSeq(refs, LAMBDA ref :
         \E targetFeature \in Range(criteria.features[1]) :
           \E refFeature \in Range(ref.features) :
             Includes(ToLowerCase(refFeature), ToLowerCase(targetFeature)))
  ELSE refs

\* mutant: the domain criterion is compared without lower-casing the reference
FilterByDomainCaseSensitive(refs, criteria) ==
  IF criteria.domain # <<>> /\ criteria.domain[1] # <<>>
  THEN LET domainLower == ToLowerCase(criteria.domain[1]) IN
       SelectSeq(refs, LAMBDA ref : Includes(ref.domain, criteria.domain[1]))
  ELSE refs

\* if (criteria.domain)
FilterByDomain(refs, criteria) ==
  IF criteria.domain # <<>> /\ criteria.domain[1] # <<>>
  THEN LET domainLower == ToLowerCase(criteria.domain[1]) IN
       SelectSeq(refs, LAMBDA ref : Includes(ToLowerCase(ref.domain), domainLower))
  ELSE refs

\* if (criteria.minRelevanceScore !== undefined)
FilterByMinScore(refs, criteria) ==
  IF criteria.minRelevanceScore # <<>>
  THEN SelectSeq(refs, LAMBDA ref : ref.relevanceScore >= criteria.minRelevanceScore[1])
  ELSE refs

\* the comparators: a negative compare(a, b) puts a before b
ComesBefore(a, b, order) ==
  CASE order = "descending" -> b.relevanceScore - a.relevanceScore < 0
    [] order = "reversedTies" -> b.relevanceScore - a.relevanceScore <= 0

\* Array.prototype.sort with a comparator is stable: an element goes after
\* every element that compares before it and before the ones it ties with
\* that followed it in the input
RECURSIVE StableSort(_, _)
StableSort(s, order) ==
  IF s = <<>> THEN <<>>
  ELSE LET rest == StableSort(Tail(s), order)
           h == Head(s)
           k == Cardinality({i \in 1..Len(rest) : ComesBefore(rest[i], h, order)})
       IN SubSeq(rest, 1, k) \o <<h>> \o SubSeq(rest, k + 1, Len(rest))

\* mutant: a sort that is not stable (ties come out in reverse input order)
SortByRelevanceUnstable(refs) == StableSort(refs, "reversedTies")

\* filteredReferences.sort((a, b) => b.relevanceScore - a.relevanceScore)
SortByRelevance(refs) == StableSort(refs, "descending")

\* the part of searchReferences that follows the load
SearchLoaded(references, criteria) ==
  LET f1 == FilterByQuery(references, criteria)
      f2 == FilterByTechStack(f1, criteria)
      f3 == FilterByFeatures(f2, criteria)
      f4 == FilterByDomain(f3, criteria)
      f5 == FilterByMinScore(f4, criteria)
  IN SortByRelevance(f5)

SearchReferences(f, criteria, t) ==
  LET l == LoadReferences(f, t) IN
  IF ~l.res.success THEN l
  ELSE [file |-> l.file, res |-> Ok(SearchLoaded(l.res.data[1].references, criteria))]

----------------------------------------------------------------------------
(* calculateRelevanceScore (research-engine.ts) *)

Min(a, b) == IF a < b THEN a ELSE b

\* reference entries that some target entry contains, case-insensitively
Overlap(entries, targets) ==
  Len(SelectSeq(entries, LAMBDA e :
        \E target \in Range(targets) : Includes(ToLowerCase(target), ToLowerCase(e))))

\* mutant: any overlap at all earns the full 40 points
TechPointsAllOrNothing(reference, targetTechStack) ==
  IF Overlap(reference.techStack, targetTechStack) > 0 THEN 40 ELSE 0

\* mutant: the tech contribution is not capped
TechPointsUncapped(reference, targetTechStack) ==
  Overlap(reference.techStack, targetTechStack) * 10

TechPoints(reference, targetTechStack) ==
  Min(Overlap(reference.techStack, targetTechStack) * 10, 40)

FeaturePoints(reference, targetFeatures) ==
  Min(Overlap(reference.features, targetFeatures) * 10, 30)

\* a string is truthy when it is not empty
DomainPoints(reference, targetDomain) ==
  IF reference.domain # <<>> /\ targetDomain # <<>> /\ reference.domain = targetDomain
  THEN 20 ELSE 0

\* mutant: an unparseable lastUpdated counts as updated today
RecencyPointsLenient(reference, t) ==
  LET lastUpdated == DateParse(reference.lastUpdated)
      daysSinceUpdate == IF lastUpdated = <<>> THEN 0 ELSE t - lastUpdated[1]
  IN IF daysSinceUpdate < 30 THEN 10
     ELSE IF daysSinceUpdate < 90 THEN 5
     ELSE 0

\* daysSinceUpdate is NaN for an unparseable lastUpdated, and every
\* comparison with NaN is false; new Date never throws
RecencyPoints(reference, t) ==
  LET lastUpdated == DateParse(reference.lastUpdated) IN
  IF lastUpdated = <<>> THEN 0
  ELSE LET daysSinceUpdate == t - lastUpdated[1] IN
       IF daysSinceUpdate < 30 THEN 10
       ELSE IF daysSinceUpdate < 90 THEN 5
       ELSE 0

ScoreParts(reference, target, t) ==
  [tech |-> TechPoints(reference, target.techStack),
   feature |-> FeaturePoints(reference, target.features),
   domain |-> DomainPoints(reference, target.domain),
   recency |-> RecencyPoints(reference, t)]

\* mutant: no contribution and no sum is capped
CalculateRelevanceScoreUncapped(reference, target, t) ==
  Overlap(reference.techStack, target.techStack) * 10
  + Overlap(reference.features, target.features) * 10
  + DomainPoints(reference, target.domain) + RecencyPoints(reference, t)

CalculateRelevanceScore(reference, target, t) ==
  LET p == ScoreParts(reference, target, t) IN
  Min(p.tech + p.feature + p.domain + p.recency, 100)

----------------------------------------------------------------------------
(* constructSearchQuery and searchSimilarProjects (research-engine.ts) *)

wvue == <<"v","u","e">>
wGeneral == <<"g","e","n","e","r","a","l">>
wGithub == <<"g","i","t","h","u","b">>
wTailwind == <<"t","a","i","l","w","i","n","d">>
wWebpack == <<"w","e","b","p","a","c","k">>
wBabel == <<"b","a","b","e","l">>
wReactNative == <<"r","e","a","c","t","-","n","a","t","i","v","e">>
wAngular == <<"a","n","g","u","l","a","r">>
wSvelte == <<"s","v","e","l","t","e">>
wSsr == <<"s","s","r">>
wComponentBased == <<"c","o","m","p","o","n","e","n","t","-","b","a","s","e","d">>
wMobile == <<"m","o","b","i","l","e">>
wComponents == <<"c","o","m","p","o","n","e","n","t","s">>
wDocumentation == <<"d","o","c","u","m","e","n","t","a","t","i","o","n">>
wNextJs == <<"n","e","x","t",".","j","s">>
wRemix == <<"r","e","m","i","x">>
wCreateReactApp == <<"c","r","e","a","t","e","-","r","e","a","c","t","-","a","p","p">>
wExpo == <<"e","x","p","o">>
wStorybook == <<"s","t","o","r","y","b","o","o","k">>

\* Array.prototype.slice(0, end)
Slice(s, end) ==
  LET k == IF end < 0 THEN (IF Len(s) + end < 0 THEN 0 ELSE Len(s) + end)
           ELSE Min(end, Len(s))
  IN SubSeq(s, 1, k)

\* Array.prototype.join(" ")
RECURSIVE Join(_)
Join(parts) ==
  IF Len(parts) = 0 THEN <<>>
  ELSE IF Len(parts) = 1 THEN parts[1]
  ELSE parts[1] \o <<" ">> \o Join(Tail(parts))

\* the groups pushed on queryParts; an empty domain is falsy
DomainPart(domain) == IF domain # <<>> /\ domain # wGeneral THEN <<domain>> ELSE <<>>
KeyTech(techStack) == Slice(techStack, 3)
KeyFeatures(features) == Slice(features, 2)
Group(entries) == IF Len(entries) > 0 THEN <<Join(entries)>> ELSE <<>>

\* mutant: every tech entry goes into the query
ConstructSearchQueryAllTech(techStack, features, domain) ==
  Join(DomainPart(domain) \o Group(techStack) \o Group(KeyFeatures(features))
       \o <<wGithub>>)

ConstructSearchQuery(techStack, features, domain) ==
  Join(DomainPart(domain) \o Group(KeyTech(techStack)) \o Group(KeyFeatures(features))
       \o <<wGithub>>)

\* the five fixture projects; day 0 of the model is 2024-11-05
MockRef(url, name, techStack, features, domain, stars, day) ==
  MkRef(url, name, wEmpty, techStack, features, domain, 0, ToISOString(day))
    @@ [stars |-> stars]

MockProjects ==
  <<MockRef("https://github.com/vercel/next.js", wNextJs,
             <<wreact, wTypescript, wTailwind>>,
             <<wRouting, wApi, wSsr>>, wFramework, 115000, 40),
     MockRef("https://github.com/remix-run/remix", wRemix,
             <<wreact, wTypescript>>,
             <<wRouting, wApi, wSsr>>, wFramework, 28000, 35),
     MockRef("https://github.com/facebook/create-react-app", wCreateReactApp,
             <<wreact, wWebpack, wBabel>>,
             <<wComponentBased>>, wTool, 99000, 15),
     MockRef("https://github.com/expo/expo", wExpo,
             <<wReactNative, wTypescript>>,
             <<wMobile, wComponents>>, wMobile, 23000, 33),
     MockRef("https://github.com/storybookjs/storybook", wStorybook,
             <<wreact, wvue, wAngular, wSvelte>>,
             <<wComponentBased, wDocumentation>>, wTool, 81000, 37)>>

GenerateMockSearchResults(query, techStack, features, domain) ==
  LET queryLower == ToLowerCase(query) IN
  SelectSeq(MockProjects, LAMBDA project :
    LET nameMatch == Includes(queryLower, ToLowerCase(project.name))
        techMatch == \E tech \in Range(techStack) : \E ptech \in Range(project.techStack) :
                       Includes(ToLowerCase(ptech), ToLowerCase(tech))
        featureMatch == \E feature \in Range(features) :
                          \E pfeature \in Range(project.features) :
                            Includes(ToLowerCase(pfeature), ToLowerCase(feature))
        domainMatch == domain # wGeneral /\ Includes(project.domain, domain)
    IN nameMatch \/ techMatch \/ featureMatch \/ domainMatch)

\* options.x || 10: the default also replaces a supplied 0
DefaultMaxResults == 10
DefaultMinStars == 10
OrDefault(option, default) == IF option = <<>> \/ option[1] = 0 THEN default ELSE option[1]

FilteredResults(mockResults, minStars) ==
  SelectSeq(mockResults, LAMBDA ref : ref.stars = 0 \/ ref.stars >= minStars)

Rescored(refs, target, t) ==
  [i \in 1..Len(refs) |->
     [refs[i] EXCEPT !.relevanceScore = CalculateRelevanceScore(refs[i], target, t)]]

\* searchSimilarProjects: the query built and the Result returned
SearchSimilarProjects(target, options, t) ==
  LET maxResults == OrDefault(options.maxResults, DefaultMaxResults)
      minStars == OrDefault(options.minStars, DefaultMinStars)
      query == ConstructSearchQuery(target.techStack, target.features, target.domain)
      mockResults == GenerateMockSearchResults(query, target.techStack, target.features,
                                               target.domain)
      filteredResults == FilteredResults(mockResults, minStars)
      sortedResults == Slice(StableSort(Rescored(filteredResults, target, t), "descending"),
                             maxResults)
  IN [query |-> query, res |-> Ok(sortedResults)]

----------------------------------------------------------------------------
(* The project analyzer (project-analyzer.ts): the project on disk *)

\* A file of the project: absent, present but not readable, or text.  The
\* text of a JSON manifest is what JSON.parse makes of it (json = <<>> when
\* it does not parse); the text of a line-oriented manifest is its lines.
NoFile == [kind |-> "absent", json |-> <<>>, lines |-> <<>>]
Unreadable == [kind |-> "unreadable", json |-> <<>>, lines |-> <<>>]
Malformed == [kind |-> "text", json |-> <<>>, lines |-> <<>>]
JsonFile(value) == [kind |-> "text", json |-> <<value>>, lines |-> <<>>]
TextFile(lines) == [kind |-> "text", json |-> <<>>, lines |-> lines]

\* a package manifest: the keys of its three dependency maps, as declared
Manifest(dependencies, devDependencies, peerDependencies) ==
  [isObject |-> TRUE, dependencies |-> dependencies,
   devDependencies |-> devDependencies, peerDependencies |-> peerDependencies]
\* the JSON text null: it parses, and reading a property of it throws
JsonNull ==
  [isObject |-> FALSE, dependencies |-> <<>>, devDependencies |-> <<>>,
   peerDependencies |-> <<>>]

\* the marker files in the order detectLanguage probes them
CommonFiles ==
  <<[file |-> "package.json", language |-> "JavaScript/TypeScript"],
    [file |-> "requirements.txt", language |-> "Python"],
    [file |-> "pyproject.toml", language |-> "Python"],
    [file |-> "go.mod", language |-> "Go"],
    [file |-> "Cargo.toml", language |-> "Rust"],
    [file |-> "pom.xml", language |-> "Java"],
    [file |-> "build.gradle", language |-> "Java"],
    [file |-> "Gemfile", language |-> "Ruby"],
    [file |-> "composer.json", language |-> "PHP"],
    [file |-> "Cargo.lock", language |-> "Rust"],
    [file |-> "go.sum", language |-> "Go"]>>

ProjectFiles == {CommonFiles[i].file : i \in 1..Len(CommonFiles)} \cup {"README.md"}

\* fs.access(path): the path exists (its permission bits are not looked at)
Exists(project, path) ==
  /\ project.root = "dir"
  /\ IF path \in ProjectFiles THEN project.files[path].kind # "absent"
     ELSE path \in project.paths

\* fs.readFile(path, "utf-8"): the file, or the thrown value
ReadFile(project, path) ==
  IF ~Exists(project, path)
  THEN [ok |-> FALSE, file |-> NoFile, thrown |-> <<Thrown("ENOENT")>>]
  ELSE IF project.files[path].kind = "unreadable"
  THEN [ok |-> FALSE, file |-> NoFile, thrown |-> <<Thrown("EACCES")>>]
  ELSE [ok |-> TRUE, file |-> project.files[path], thrown |-> <<>>]

\* new ProjectAnalysisError(`${message}: ${error}`): the second constructor
\* argument, cause, is not passed
ProjectAnalysisError(message, error) ==
  [isError |-> TRUE, name |-> "ProjectAnalysisError",
   code |-> message \o ": " \o error.code, cause |-> <<>>]

Returned(value) == [ok |-> TRUE, value |-> <<value>>, thrown |-> <<>>]
Throws(error) == [ok |-> FALSE, value |-> <<>>, thrown |-> <<error>>]

DetectLanguage(project) ==
  IF \E i \in 1..Len(CommonFiles) : Exists(project, CommonFiles[i].file)
  THEN CommonFiles[CHOOSE i \in 1..Len(CommonFiles) :
                     /\ Exists(project, CommonFiles[i].file)
                     /\ \A j \in 1..(i - 1) : ~Exists(project, CommonFiles[j].file)].language
  ELSE "Unknown"

----------------------------------------------------------------------------
(* parsePackageJson *)

StartsWith(s, prefix) == Len(s) >= Len(prefix) /\ SubSeq(s, 1, Len(prefix)) = prefix

\* Object.keys of { ...a, ...b }: the keys of a, then the keys only b has
SpreadKeys(a, b) == a \o SelectSeq(b, LAMBDA k : k \notin Range(a))

FrameworkKeywords ==
  <<<<"r","e","a","c","t">>,
    <<"v","u","e">>,
    <<"a","n","g","u","l","a","r">>,
    <<"s","v","e","l","t","e">>,
    <<"n","e","x","t">>,
    <<"e","x","p","r","e","s","s">>,
    <<"k","o","a">>,
    <<"h","a","p","i">>>>

TypesPrefix == <<"@","t","y","p","e","s","/">>

\* mutant: a name is a framework only when it equals a keyword
IsFrameworkExact(dep) == dep \in Range(FrameworkKeywords)

IsFramework(dep) == \E fw \in Range(FrameworkKeywords) : Includes(dep, fw)

TechStackAnalysis(language, dependencies, frameworks, libraries) ==
  [language |-> language, dependencies |-> dependencies,
   frameworks |-> frameworks, libraries |-> libraries]

ParsePackageJson(project) ==
  LET r == ReadFile(project, "package.json") IN
  IF ~r.ok THEN Throws(ProjectAnalysisError("Failed to parse package.json", r.thrown[1]))
  ELSE IF r.file.json = <<>>
  THEN Throws(ProjectAnalysisError("Failed to parse package.json", Thrown("SyntaxError")))
  ELSE IF ~r.file.json[1].isObject
  THEN Throws(ProjectAnalysisError("Failed to parse package.json", Thrown("TypeError")))
  ELSE
    LET packageJson == r.file.json[1]
        deps == SpreadKeys(SpreadKeys(packageJson.dependencies, packageJson.devDependencies),
                           packageJson.peerDependencies)
        frameworks == SelectSeq(deps, IsFramework)
        libraries == SelectSeq(deps, LAMBDA dep :
                       dep \notin Range(frameworks) /\ ~StartsWith(dep, TypesPrefix))
    IN Returned(TechStackAnalysis("JavaScript/TypeScript", deps, frameworks, libraries))

----------------------------------------------------------------------------
(* parseRequirementsTxt, parseGoMod, parseCargoToml *)

\* String.prototype.trim, with the space as the only white space
Trim(s) ==
  IF \A i \in 1..Len(s) : s[i] = " " THEN <<>>
  ELSE LET first == CHOOSE i \in 1..Len(s) : s[i] # " " /\ \A j \in 1..(i - 1) : s[j] = " "
           last == CHOOSE i \in 1..Len(s) : s[i] # " " /\ \A j \in (i + 1)..Len(s) : s[j] = " "
       IN SubSeq(s, first, last)

\* s.split(separators)[0]: what comes before the first separator
Before(s, separators) ==
  IF \A i \in 1..Len(s) : s[i] \notin separators THEN s
  ELSE LET i == CHOOSE k \in 1..Len(s) :
                  s[k] \in separators /\ \A j \in 1..(k - 1) : s[j] \notin separators
       IN SubSeq(s, 1, i - 1)

PythonFrameworkKeywords ==
  <<<<"d","j","a","n","g","o">>, <<"f","l","a","s","k">>, <<"f","a","s","t","a","p","i">>, <<"p","y","t","e","s","t">>>>

ParseRequirementsTxt(project) ==
  LET r == ReadFile(project, "requirements.txt") IN
  IF ~r.ok THEN Throws(ProjectAnalysisError("Failed to parse requirements.txt", r.thrown[1]))
  ELSE
    LET trimmed == [i \in 1..Len(r.file.lines) |-> Trim(r.file.lines[i])]
        kept == SelectSeq(trimmed, LAMBDA line : line # <<>> /\ ~StartsWith(line, <<"#">>))
        dependencies == [i \in 1..Len(kept) |-> Trim(Before(kept[i], {"=", "<", ">"}))]
        frameworks == SelectSeq(dependencies, LAMBDA dep :
                        \E fw \in Range(PythonFrameworkKeywords) : Includes(dep, fw))
        libraries == SelectSeq(dependencies, LAMBDA dep : dep \notin Range(frameworks))
    IN Returned(TechStackAnalysis("Python", dependencies, frameworks, libraries))

\* trimmed.split(/\s+/)[1] of a trimmed line that has a space in it
SecondPart(trimmed) ==
  Before(Trim(SubSeq(trimmed, Len(Before(trimmed, {" "})) + 1, Len(trimmed))), {" "})

RECURSIVE GoModDependencies(_)
GoModDependencies(lines) ==
  IF lines = <<>> THEN <<>>
  ELSE LET trimmed == Trim(Head(lines)) IN
       (IF /\ StartsWith(trimmed, <<"r","e","q","u","i","r","e"," ">>)
           /\ ~StartsWith(trimmed, <<"r","e","q","u","i","r","e"," ","(">>)
           /\ SecondPart(trimmed) # <<>>
        THEN <<SecondPart(trimmed)>> ELSE <<>>)
       \o GoModDependencies(Tail(lines))

ParseGoMod(project) ==
  LET r == ReadFile(project, "go.mod") IN
  IF ~r.ok THEN Throws(ProjectAnalysisError("Failed to parse go.mod", r.thrown[1]))
  ELSE LET dependencies == GoModDependencies(r.file.lines) IN
       Returned(TechStackAnalysis("Go", dependencies, <<>>, dependencies))

\* the characters of \w
WordChars ==
  Range(UpperChars) \cup Range(LowerChars)
    \cup {"0", "1", "2", "3", "4", "5", "6", "7", "8", "9", "_"}

\* trimmed.match(/^(\w+)\s*=/): the captured name, if the line matches
DepMatch(trimmed) ==
  LET name == Before(trimmed, {c \in Range(trimmed) : c \notin WordChars})
      rest == Trim(SubSeq(trimmed, Len(name) + 1, Len(trimmed)))
  IN IF name # <<>> /\ rest # <<>> /\ rest[1] = "=" THEN <<name>> ELSE <<>>

RECURSIVE CargoDependencies(_, _)
CargoDependencies(lines, inDeps) ==
  IF lines = <<>> THEN <<>>
  ELSE LET trimmed == Trim(Head(lines)) IN
       IF StartsWith(trimmed, <<"[","d","e","p","e","n","d","e","n","c","i","e","s","]">>)
       THEN CargoDependencies(Tail(lines), TRUE)
       ELSE IF StartsWith(trimmed, <<"[">>) THEN CargoDependencies(Tail(lines), FALSE)
       ELSE (IF inDeps /\ trimmed # <<>> /\ ~StartsWith(trimmed, <<"#">>)
             THEN DepMatch(trimmed) ELSE <<>>)
            \o CargoDependencies(Tail(lines), inDeps)

ParseCargoToml(project) ==
  LET r == ReadFile(project, "Cargo.toml") IN
  IF ~r.ok THEN Throws(ProjectAnalysisError("Failed to parse Cargo.toml", r.thrown[1]))
  ELSE LET dependencies == CargoDependencies(r.file.lines, FALSE) IN
       Returned(TechStackAnalysis("Rust", dependencies, <<>>, dependencies))

----------------------------------------------------------------------------
(* getTechStackAnalysis *)

\* the outcome of a parser, with the parsers that ran
Traced(parsers, r) ==
  [ok |-> r.ok, value |-> r.value, thrown |-> r.thrown, parsers |-> parsers]

\* mutant: when the parser of the detected language fails, the package
\* manifest and then the requirements list are tried
GetTechStackAnalysisRetrying(project) ==
  LET language == DetectLanguage(project)
      first == CASE language = "JavaScript/TypeScript" ->
                      Traced(<<"parsePackageJson">>, ParsePackageJson(project))
                 [] language = "Python" ->
                      Traced(<<"parseRequirementsTxt">>, ParseRequirementsTxt(project))
                 [] language = "Go" -> Traced(<<"parseGoMod">>, ParseGoMod(project))
                 [] language = "Rust" -> Traced(<<"parseCargoToml">>, ParseCargoToml(project))
                 [] OTHER -> Traced(<<>>, Returned(TechStackAnalysis(language, <<>>, <<>>, <<>>)))
  IN IF first.ok THEN first
     ELSE Traced(first.parsers \o <<"parseRequirementsTxt">>, ParseRequirementsTxt(project))

\* mutant: a project with no manifest the analyzer can parse is rejected
GetTechStackAnalysisStrict(project) ==
  LET language == DetectLanguage(project) IN
  CASE language = "JavaScript/TypeScript" ->
         Traced(<<"parsePackageJson">>, ParsePackageJson(project))
    [] language = "Python" ->
         Traced(<<"parseRequirementsTxt">>, ParseRequirementsTxt(project))
    [] language = "Go" -> Traced(<<"parseGoMod">>, ParseGoMod(project))
    [] language = "Rust" -> Traced(<<"parseCargoToml">>, ParseCargoToml(project))
    [] OTHER -> Traced(<<>>, Throws(ProjectAnalysisError("No manifest", Thrown("ENOENT"))))

GetTechStackAnalysis(project) ==
  LET language == DetectLanguage(project) IN
  CASE language = "JavaScript/TypeScript" ->
         Traced(<<"parsePackageJson">>, ParsePackageJson(project))
    [] language = "Python" ->
         Traced(<<"parseRequirementsTxt">>, ParseRequirementsTxt(project))
    [] language = "Go" -> Traced(<<"parseGoMod">>, ParseGoMod(project))
    [] language = "Rust" -> Traced(<<"parseCargoToml">>, ParseCargoToml(project))
    [] OTHER -> Traced(<<>>, Returned(TechStackAnalysis(language, <<>>, <<>>, <<>>)))

----------------------------------------------------------------------------
(* analyzeFeatures and extractDomain *)

FeatureMap ==
  <<[path |-> "auth", feature |-> <<"a","u","t","h","e","n","t","i","c","a","t","i","o","n">>],
    [path |-> "src/auth", feature |-> <<"a","u","t","h","e","n","t","i","c","a","t","i","o","n">>],
    [path |-> "api", feature |-> <<"a","p","i">>],
    [path |-> "src/api", feature |-> <<"a","p","i">>],
    [path |-> "routes", feature |-> <<"r","o","u","t","i","n","g">>],
    [path |-> "src/routes", feature |-> <<"r","o","u","t","i","n","g">>],
    [path |-> "components", feature |-> <<"c","o","m","p","o","n","e","n","t","-","b","a","s","e","d">>],
    [path |-> "src/components", feature |-> <<"c","o","m","p","o","n","e","n","t","-","b","a","s","e","d">>],
    [path |-> "pages", feature |-> <<"p","a","g","e","s","/","r","o","u","t","i","n","g">>],
    [path |-> "src/pages", feature |-> <<"p","a","g","e","s","/","r","o","u","t","i","n","g">>],
    [path |-> "tests", feature |-> <<"t","e","s","t","i","n","g">>],
    [path |-> "test", feature |-> <<"t","e","s","t","i","n","g">>],
    [path |-> "src/test", feature |-> <<"t","e","s","t","i","n","g">>],
    [path |-> "__tests__", feature |-> <<"t","e","s","t","i","n","g">>],
    [path |-> "public", feature |-> <<"s","t","a","t","i","c","-","a","s","s","e","t","s">>],
    [path |-> "assets", feature |-> <<"s","t","a","t","i","c","-","a","s","s","e","t","s">>],
    [path |-> "src/assets", feature |-> <<"s","t","a","t","i","c","-","a","s","s","e","t","s">>],
    [path |-> "docs", feature |-> <<"d","o","c","u","m","e","n","t","a","t","i","o","n">>],
    [path |-> "README.md", feature |-> <<"d","o","c","u","m","e","n","t","a","t","i","o","n">>],
    [path |-> "Dockerfile", feature |-> <<"d","o","c","k","e","r","i","z","a","t","i","o","n">>],
    [path |-> "docker-compose.yml", feature |-> <<"d","o","c","k","e","r","i","z","a","t","i","o","n">>],
    [path |-> "docker-compose.yaml", feature |-> <<"d","o","c","k","e","r","i","z","a","t","i","o","n">>],
    [path |-> ".github/workflows", feature |-> <<"c","i","-","c","d">>],
    [path |-> "scripts", feature |-> <<"b","u","i","l","d","-","t","o","o","l","s">>],
    [path |-> "config", feature |-> <<"c","o","n","f","i","g","u","r","a","t","i","o","n">>],
    [path |-> "src/config", feature |-> <<"c","o","n","f","i","g","u","r","a","t","i","o","n">>]>>

RECURSIVE DetectedFeatures(_, _, _)
DetectedFeatures(project, i, features) ==
  IF i > Len(FeatureMap) THEN features
  ELSE DetectedFeatures(project, i + 1,
         IF Exists(project, FeatureMap[i].path) /\ FeatureMap[i].feature \notin Range(features)
         THEN Append(features, FeatureMap[i].feature) ELSE features)

\* fs.readdir of the project root fails when the root does not exist
AnalyzeFeatures(project) ==
  IF project.root # "dir"
  THEN Throws(ProjectAnalysisError("Failed to analyze features", Thrown("ENOENT")))
  ELSE Returned(DetectedFeatures(project, 1, <<>>))

DomainMap ==
  <<[keyword |-> <<"s","h","o","p">>, domain |-> <<"e","-","c","o","m","m","e","r","c","e">>],
    [keyword |-> <<"s","t","o","r","e">>, domain |-> <<"e","-","c","o","m","m","e","r","c","e">>],
    [keyword |-> <<"c","a","r","t">>, domain |-> <<"e","-","c","o","m","m","e","r","c","e">>],
    [keyword |-> <<"p","a","y","m","e","n","t">>, domain |-> <<"f","i","n","t","e","c","h">>],
    [keyword |-> <<"b","a","n","k">>, domain |-> <<"f","i","n","t","e","c","h">>],
    [keyword |-> <<"w","a","l","l","e","t">>, domain |-> <<"f","i","n","t","e","c","h">>],
    [keyword |-> <<"b","l","o","g">>, domain |-> <<"c","o","n","t","e","n","t","-","m","a","n","a","g","e","m","e","n","t">>],
    [keyword |-> <<"c","m","s">>, domain |-> <<"c","o","n","t","e","n","t","-","m","a","n","a","g","e","m","e","n","t">>],
    [keyword |-> <<"a","d","m","i","n">>, domain |-> <<"a","d","m","i","n","-","d","a","s","h","b","o","a","r","d">>],
    [keyword |-> <<"d","a","s","h","b","o","a","r","d">>, domain |-> <<"a","d","m","i","n","-","d","a","s","h","b","o","a","r","d">>],
    [keyword |-> <<"s","o","c","i","a","l">>, domain |-> <<"s","o","c","i","a","l","-","m","e","d","i","a">>],
    [keyword |-> <<"c","h","a","t">>, domain |-> <<"m","e","s","s","a","g","i","n","g">>],
    [keyword |-> <<"v","i","d","e","o">>, domain |-> <<"m","e","d","i","a">>],
    [keyword |-> <<"m","u","s","i","c">>, domain |-> <<"m","e","d","i","a">>],
    [keyword |-> <<"g","a","m","e">>, domain |-> <<"g","a","m","i","n","g">>],
    [keyword |-> <<"a","p","i">>, domain |-> <<"b","a","c","k","e","n","d","-","a","p","i">>],
    [keyword |-> <<"m","i","c","r","o">>, domain |-> <<"m","i","c","r","o","s","e","r","v","i","c","e","s">>],
    [keyword |-> <<"s","e","r","v","e","r">>, domain |-> <<"b","a","c","k","e","n","d","-","a","p","i">>],
    [keyword |-> <<"c","l","i">>, domain |-> <<"c","o","m","m","a","n","d","-","l","i","n","e">>],
    [keyword |-> <<"t","o","o","l">>, domain |-> <<"c","o","m","m","a","n","d","-","l","i","n","e">>],
    [keyword |-> <<"l","i","b","r","a","r","y">>, domain |-> <<"p","a","c","k","a","g","e","-","l","i","b","r","a","r","y">>]>>

FeatureDomainMap ==
  <<[domain |-> <<"e","-","c","o","m","m","e","r","c","e">>,
     keywords |-> <<<<"c","a","r","t">>, <<"c","h","e","c","k","o","u","t">>, <<"p","a","y","m","e","n","t">>>>],
    [domain |-> <<"a","d","m","i","n","-","d","a","s","h","b","o","a","r","d">>,
     keywords |-> <<<<"a","d","m","i","n">>, <<"d","a","s","h","b","o","a","r","d">>>>],
    [domain |-> <<"s","o","c","i","a","l","-","m","e","d","i","a">>,
     keywords |-> <<<<"s","o","c","i","a","l">>, <<"p","r","o","f","i","l","e">>, <<"f","e","e","d">>>>],
    [domain |-> <<"m","e","s","s","a","g","i","n","g">>,
     keywords |-> <<<<"c","h","a","t">>, <<"m","e","s","s","a","g","e">>>>],
    [domain |-> <<"c","o","n","t","e","n","t","-","m","a","n","a","g","e","m","e","n","t">>,
     keywords |-> <<<<"b","l","o","g">>, <<"c","m","s">>, <<"c","o","n","t","e","n","t">>>>],
    [domain |-> <<"b","a","c","k","e","n","d","-","a","p","i">>,
     keywords |-> <<<<"a","p","i">>, <<"s","e","r","v","e","r">>>>]>>

\* the domain of the first entry of DomainMap whose keyword text contains
FirstDomain(texts) ==
  LET hit(i) == \E text \in texts : Includes(text, DomainMap[i].keyword) IN
  IF \E i \in 1..Len(DomainMap) : hit(i)
  THEN <<DomainMap[CHOOSE i \in 1..Len(DomainMap) :
                     hit(i) /\ \A j \in 1..(i - 1) : ~hit(j)].domain>>
  ELSE <<>>

\* mutant: the feature table is not consulted
FirstFeatureDomainSkipped(features) == <<>>

FirstFeatureDomain(features) ==
  LET hit(i) == \E keyword \in Range(FeatureDomainMap[i].keywords) :
                  keyword \in Range(features) IN
  IF \E i \in 1..Len(FeatureDomainMap) : hit(i)
  THEN <<FeatureDomainMap[CHOOSE i \in 1..Len(FeatureDomainMap) :
                            hit(i) /\ \A j \in 1..(i - 1) : ~hit(j)].domain>>
  ELSE <<>>

\* mutant: the README is consulted before the features
ExtractDomainReadmeFirst(project, features) ==
  LET byName == FirstDomain({ToLowerCase(project.name)})
      byFeature == FirstFeatureDomain(features)
      readme == ReadFile(project, "README.md")
      byReadme == IF readme.ok
                  THEN FirstDomain({ToLowerCase(readme.file.lines[i]) :
                                      i \in 1..Len(readme.file.lines)})
                  ELSE <<>>
  IN IF byName # <<>> THEN byName[1]
     ELSE IF byReadme # <<>> THEN byReadme[1]
     ELSE IF byFeature # <<>> THEN byFeature[1]
     ELSE wGeneral

ExtractDomain(project, features) ==
  LET byName == FirstDomain({ToLowerCase(project.name)})
      byFeature == FirstFeatureDomain(features)
      readme == ReadFile(project, "README.md")
      byReadme == IF readme.ok
                  THEN FirstDomain({ToLowerCase(readme.file.lines[i]) :
                                      i \in 1..Len(readme.file.lines)})
                  ELSE <<>>
  IN IF byName # <<>> THEN byName[1]
     ELSE IF byFeature # <<>> THEN byFeature[1]
     ELSE IF byReadme # <<>> THEN byReadme[1]
     ELSE wGeneral

----------------------------------------------------------------------------
(* analyzeProject *)

ProjectMetadata(name, techStack, features, domain, language) ==
  [name |-> name, techStack |-> techStack, features |-> features,
   domain |-> domain, language |-> language]

\* analyzeProject: the Result returned, the manifest parsers that ran and
\* the tech stack analysis they gave
AnalyzeProject(project) ==
  LET techStackAnalysis == GetTechStackAnalysis(project)
      features == AnalyzeFeatures(project)
  IN IF ~techStackAnalysis.ok
     THEN [res |-> Fail(techStackAnalysis.thrown[1]), parsers |-> techStackAnalysis.parsers,
           analysis |-> <<>>]
     ELSE IF ~features.ok
     THEN [res |-> Fail(features.thrown[1]), parsers |-> techStackAnalysis.parsers,
           analysis |-> techStackAnalysis.value]
     ELSE [res |-> Ok(ProjectMetadata(
                        project.name,
                        techStackAnalysis.value[1].dependencies
                          \o techStackAnalysis.value[1].frameworks,
                        features.value[1],
                        ExtractDomain(project, features.value[1]),
                        techStackAnalysis.value[1].language)),
           parsers |-> techStackAnalysis.parsers, analysis |-> techStackAnalysis.value]

----------------------------------------------------------------------------
(* Inputs of the calls *)

NewReferenceLists == SeqsUpTo(RefPool, MaxNew)

TechStacks == {<<>>, <<wReact, wTs>>}

\* cleanupReferences(maxAge): 1 day, and the default of 90 days
DefaultMaxAge == 90
MaxAges == {1, DefaultMaxAge}

SearchCriteria ==
  {[query |-> q, techStack |-> ts, features |-> fs, domain |-> d, minRelevanceScore |-> m] :
     q \in {<<>>, <<wreact>>},
     ts \in {<<>>, << <<wNuxt, <<"T","S">> >> >>},
     fs \in {<<>>, << <<wApi>> >>},
     d \in {<<>>, << <<"F","R","A","M","E">> >>},
     m \in {<<>>, <<70>>}}
  \cup {[NoCriteria EXCEPT !.query = << <<"O","L","D">> >>],
        [NoCriteria EXCEPT !.query = << <<"r","o","u","t">> >>],
        [NoCriteria EXCEPT !.query = <<wTool>>],
        [NoCriteria EXCEPT !.query = <<wEmpty>>],
        [NoCriteria EXCEPT !.techStack = << <<>> >>],
        [NoCriteria EXCEPT !.features = << <<>> >>],
        [NoCriteria EXCEPT !.domain = <<wEmpty>>],
        [NoCriteria EXCEPT !.minRelevanceScore = <<0>>]}

NoTarget == [techStack |-> <<>>, features |-> <<>>, domain |-> <<>>]

\* ResearchOptions (types.ts): neither maxResults nor minStars supplied
NoOptions == [maxResults |-> <<>>, minStars |-> <<>>]

\* targets of searchSimilarProjects: up to 4 tech entries, up to 3 features
ResearchTargets ==
  {[techStack |-> ts, features |-> fs, domain |-> d] :
     ts \in {<<>>, <<wreact>>, <<wreact, wTypescript, wTailwind, wvue>>},
     fs \in {<<>>, <<wRouting>>, <<wRouting, wApi, wSsr>>},
     d \in {wGeneral, wEmpty, wFramework, wTool}}

ResearchOptionsSet ==
  {[maxResults |-> m, minStars |-> st] :
     m \in {<<>>, <<0>>, <<2>>, <<10>>}, st \in {<<>>, <<50000>>}}

\* words of the projects analyzed
wApp == <<"a","p","p">>
wBlogShop == <<"B","l","o","g","-","S","h","o","p">>
wJest == <<"j","e","s","t">>
wPinia == <<"p","i","n","i","a">>
wTypesReact == <<"@","t","y","p","e","s","/","r","e","a","c","t">>
wTypesNode == <<"@","t","y","p","e","s","/","n","o","d","e">>
wReactDom == <<"r","e","a","c","t","-","d","o","m">>
wExpress == <<"e","x","p","r","e","s","s">>
wNextra == <<"n","e","x","t","r","a">>

\* package.json: absent, unreadable, not JSON, the JSON null, or a manifest
PackageJsonFiles ==
  {NoFile, Unreadable, Malformed, JsonFile(JsonNull),
   JsonFile(Manifest(<<>>, <<>>, <<>>)),
   JsonFile(Manifest(<<wreact>>, <<wJest>>, <<>>)),
   JsonFile(Manifest(<<wvue, wNuxt, wPinia>>, <<>>, <<>>)),
   JsonFile(Manifest(<<wreact, wTypescript>>, <<wTypesReact, wTypesNode, wJest>>, <<wreact>>)),
   JsonFile(Manifest(<<wReactDom, wExpress>>, <<>>, <<wNextra, wPinia>>)),
   JsonFile(Manifest(<<wPinia, wJest>>, <<>>, <<>>))}

RequirementsLines ==
  <<<<"#"," ","d","e","p","s">>,
    <<"d","j","a","n","g","o","=","=","4",".","2">>,
    <<" "," ","r","e","q","u","e","s","t","s"," ",">","="," ","2",".","0"," ">>,
    <<>>>>
GoModLines ==
  <<<<"m","o","d","u","l","e"," ","x">>,
    <<"r","e","q","u","i","r","e"," ","g","i","n"," ","v","1">>,
    <<"r","e","q","u","i","r","e"," ","(">>,
    <<")">>>>
CargoLines ==
  <<<<"[","p","a","c","k","a","g","e","]">>,
    <<"n","a","m","e"," ","="," ","x">>,
    <<"[","d","e","p","e","n","d","e","n","c","i","e","s","]">>,
    <<"s","e","r","d","e"," ","="," ","1">>,
    <<"#"," ","n","o","t","e">>,
    <<"s","e","r","d","e","-","j","s","o","n"," ","="," ","1">>,
    <<"[","d","e","v","-","d","e","p","e","n","d","e","n","c","i","e","s","]">>,
    <<"r","a","n","d"," ","="," ","1">>>>

\* the other marker files of a project, as file name and content
OtherManifests ==
  {<<>>,
   <<[file |-> "requirements.txt", content |-> TextFile(RequirementsLines)]>>,
   <<[file |-> "requirements.txt", content |-> Unreadable]>>,
   <<[file |-> "pyproject.toml", content |-> TextFile(<<>>)]>>,
   <<[file |-> "go.mod", content |-> TextFile(GoModLines)],
     [file |-> "go.sum", content |-> TextFile(<<>>)]>>,
   <<[file |-> "go.sum", content |-> TextFile(<<>>)]>>,
   <<[file |-> "Cargo.toml", content |-> TextFile(CargoLines)]>>,
   <<[file |-> "Cargo.lock", content |-> TextFile(<<>>)]>>,
   <<[file |-> "pom.xml", content |-> TextFile(<<>>)]>>}

FileAt(entries, f) ==
  IF \E i \in 1..Len(entries) : entries[i].file = f
  THEN entries[CHOOSE i \in 1..Len(entries) : entries[i].file = f].content
  ELSE NoFile

\* README.md: absent, unreadable, or text that names "chat" before "blog"
ReadmeFiles ==
  {NoFile, Unreadable,
   TextFile(<<<<"#"," ","C","h","a","t">>,
              <<"A"," ","B","l","o","g"," ","e","n","g","i","n","e">>>>)}

\* every path of the feature catalog but README.md
AllPaths == {FeatureMap[i].path : i \in 1..Len(FeatureMap)} \ {"README.md"}

MkProject(name, packageJson, others, readme, paths) ==
  [root |-> "dir", name |-> name, paths |-> paths,
   files |-> [f \in ProjectFiles |->
                IF f = "package.json" THEN packageJson
                ELSE IF f = "README.md" THEN readme
                ELSE FileAt(others, f)]]

\* a project root that does not exist
MissingProject ==
  [root |-> "missing", name |-> wApp, paths |-> {},
   files |-> [f \in ProjectFiles |-> NoFile]]

Projects ==
  {MkProject(name, packageJson, others, readme, paths) :
     name \in {wApp, wBlogShop},
     packageJson \in PackageJsonFiles,
     others \in OtherManifests,
     readme \in ReadmeFiles,
     paths \in {{}, {"api", "src/api", "tests"}, AllPaths \ {"api", "src/api"}, AllPaths}}
  \cup {MissingProject}

ScoreTargets ==
  {[techStack |-> ts, features |-> fs, domain |-> d] :
     ts \in {<<>>, <<wreact, wTypescript>>},
     fs \in {<<>>, <<wRouting>>},
     d \in {wEmpty, wFramework, wTool}}

wType == <<"t","y","p","e">>
wScript == <<"S","c","r","i","p","t">>
wRout == <<"r","o","u","t">>
wTing == <<"T","i","n","g">>

\* tech stacks of candidates: 0, 1, 1, 2, 3, 4 and 5 of their entries are
\* contained in an entry of the target <<wreact, wTypescript>>
ScoreTechStacks ==
  {<<>>, <<wreact>>, <<wReact, wTs>>, <<wReact, wTypescript>>,
   <<wReact, wTypescript, wType>>,
   <<wReact, wTypescript, wType, wScript>>,
   <<wReact, wTypescript, wType, wScript, wreact>>}

\* feature lists of candidates: 0, 1 and 4 of their entries are contained
\* in the target feature wRouting
ScoreFeatureLists == {<<>>, <<wRouting>>, <<wRouting, wRout, wTing, wRouting>>}

\* candidates as a provider hands them over, last updated today, 30, 40, 90
\* or 100 days ago, or at no parseable date
ScoreReferences(t) ==
  {MkRef(UrlA, wNext, wEmpty, ts, fs, d, 0, u) :
     ts \in ScoreTechStacks,
     fs \in ScoreFeatureLists,
     d \in {wEmpty, wFramework},
     u \in {ToISOString(t), ToISOString(t - 30), ToISOString(t - 40), ToISOString(t - 90),
            ToISOString(t - 100), NotADate}}

----------------------------------------------------------------------------
(* The record of the last call *)

NoCall ==
  [op |-> "none", before |-> Absent, at |-> StartDay,
   newReferences |-> <<>>, techStack |-> <<>>, maxAge |-> 0,
   criteria |-> NoCriteria, again |-> FALSE,
   reference |-> <<>>, target |-> NoTarget, options |-> NoOptions, query |-> <<>>,
   project |-> <<>>, parsers |-> <<>>, analysis |-> <<>>,
   config |-> <<>>, configAfter |-> <<>>, message |-> <<>>, suggestion |-> <<>>,
   event |-> "", found |-> OkVoid, log |-> <<>>,
   res |-> OkVoid]

Call(op) == [NoCall EXCEPT !.op = op, !.before = file, !.at = now]

\* the reference list a document holds (none when it is absent or unparseable)
StoredReferences(f) == IF f.kind = "json" THEN f.value[1].references ELSE <<>>

----------------------------------------------------------------------------
(* Sequential use of the store: one call at a time.  A call is issued once  *)
(* the caller has taken the result of the call before it (Return); an       *)
(* addReferences may also be issued again at once with the same list.       *)

\* the concurrent invocations and their locals, unused here
Procs == {1, 2}
NoLocal ==
  [op |-> "none", newReferences |-> <<>>, techStack |-> <<>>, maxAge |-> 0,
   criteria |-> NoCriteria, loaded |-> <<>>, emptyData |-> <<>>,
   readBeforeSave |-> FALSE, order |-> 0, res |-> OkVoid]
Idle == [i \in Procs |-> "idle"]
NoLocals == [i \in Procs |-> NoLocal]

Init ==
  /\ file \in {Absent, Corrupt, WriteFile(Absent, JSONStringify(EmptyData(StartDay))).file}
  /\ now = StartDay
  /\ ret = NoCall
  /\ pc = Idle
  /\ loc = NoLocals

Ready == ret.op = "none"

Load ==
  /\ Ready
  /\ LET r == LoadReferences(file, now) IN
       /\ file' = r.file
       /\ ret' = [Call("load") EXCEPT !.res = r.res]
  /\ UNCHANGED <<now, pc, loc>>

Add ==
  \E newReferences \in NewReferenceLists :
    /\ Ready \/ (ret.op = "add" /\ ret.newReferences = newReferences)
    /\ LET r == AddReferences(file, newReferences, now) IN
         /\ Len(StoredReferences(r.file)) <= MaxRefs
         /\ file' = r.file
         /\ ret' = [Call("add") EXCEPT !.newReferences = newReferences,
                                       !.again = (ret.op = "add" /\ ret.res.success),
                                       !.res = r.res]
    /\ UNCHANGED <<now, pc, loc>>

UpdateTech ==
  \E techStack \in TechStacks :
    /\ Ready
    /\ LET r == UpdateTechStack(file, techStack, now) IN
         /\ file' = r.file
         /\ ret' = [Call("updateTechStack") EXCEPT !.techStack = techStack, !.res = r.res]
    /\ UNCHANGED <<now, pc, loc>>

Cleanup ==
  \E maxAge \in MaxAges :
    /\ Ready
    /\ LET r == CleanupReferences(file, maxAge, now) IN
         /\ file' = r.file
         /\ ret' = [Call("cleanup") EXCEPT !.maxAge = maxAge, !.res = r.res]
    /\ UNCHANGED <<now, pc, loc>>

Search ==
  \E criteria \in SearchCriteria :
    /\ Ready
    /\ LET r == SearchReferences(file, criteria, now) IN
         /\ file' = r.file
         /\ ret' = [Call("search") EXCEPT !.criteria = criteria, !.res = r.res]
    /\ UNCHANGED <<now, pc, loc>>

\* the caller takes the result
Return ==
  /\ ~Ready
  /\ ret' = NoCall
  /\ UNCHANGED <<file, now, pc, loc>>

\* a day passes
Tick ==
  /\ Ready
  /\ now < StartDay + MaxDays
  /\ now' = now + 1
  /\ UNCHANGED <<file, ret, pc, loc>>

Next == Load \/ Add \/ UpdateTech \/ Cleanup \/ Search \/ Return \/ Tick

Spec == Init /\ [][Next]_vars

----------------------------------------------------------------------------
(* The scorer on its own: calculateRelevanceScore applied to candidates *)

Score ==
  \E reference \in ScoreReferences(now), target \in ScoreTargets :
    /\ Ready
    /\ ret' = [Call("score") EXCEPT
                 !.reference = <<reference>>, !.target = target,
                 !.res = Ok(CalculateRelevanceScore(reference, target, now))]
    /\ UNCHANGED <<file, now, pc, loc>>

NextScore == Score \/ Return \/ Tick

SpecScore == Init /\ [][NextScore]_vars

----------------------------------------------------------------------------
(* The research engine on its own: searchSimilarProjects on a target *)

SearchSimilar ==
  \E target \in ResearchTargets, options \in ResearchOptionsSet :
    /\ Ready
    /\ LET r == SearchSimilarProjects(target, options, now) IN
       ret' = [Call("similar") EXCEPT
                 !.target = target, !.options = options,
                 !.query = r.query, !.res = r.res]
    /\ UNCHANGED <<file, now, pc, loc>>

NextResearch == SearchSimilar \/ Return \/ Tick

SpecResearch == Init /\ [][NextResearch]_vars

----------------------------------------------------------------------------
(* The project analyzer on its own: analyzeProject on a project on disk *)

Analyze ==
  \E project \in Projects :
    /\ Ready
    /\ LET r == AnalyzeProject(project) IN
       ret' = [Call("analyze") EXCEPT
                 !.project = <<project>>, !.parsers = r.parsers,
                 !.analysis = r.analysis, !.res = r.res]
    /\ UNCHANGED <<file, now, pc, loc>>

NextAnalyze == Analyze \/ Return \/ Tick

SpecAnalyze == Init /\ [][NextAnalyze]_vars

----------------------------------------------------------------------------
(* Context-aware suggestions (config.ts).  The configuration file is an     *)
(* input of the call: absent, unparseable, or JSON that sets some of the    *)
(* fields.                                                                  *)

DefaultConfig ==
  [enabled |-> TRUE, autoResearch |-> TRUE, researchDepth |-> "light",
   maxReferences |-> 10, platforms |-> <<"github", "gitlab", "codeberg", "any">>,
   minStars |-> 10, searchEngines |-> <<"web">>, contextAwareSuggestions |-> TRUE,
   codeAnalysis |-> [enabled |-> TRUE, cacheSize |-> 20]]

\* { ...DEFAULT_CONFIG, ...config }: the fields the file sets replace the defaults
SpreadConfig(config) ==
  [k \in DOMAIN DefaultConfig |-> IF k \in DOMAIN config THEN config[k] ELSE DefaultConfig[k]]

\* loadConfig: the parsed file over the defaults; a file that is absent or
\* does not parse is replaced by the defaults
LoadConfig(configFile) ==
  IF configFile.kind = "json"
  THEN [file |-> configFile, res |-> Ok(SpreadConfig(configFile.value[1]))]
  ELSE [file |-> [kind |-> "json", value |-> <<DefaultConfig>>],
        res |-> Ok(DefaultConfig)]

\* the Promise an async function returns to a caller that does not await it
PromiseOf(result) == [then |-> result]

\* value.name: undefined (no value) when the object has no such property
Property(value, name) == IF name \in DOMAIN value THEN <<value[name]>> ELSE <<>>

\* !x for x undefined or a boolean
Falsy(x) == x = <<>> \/ x[1] = FALSE

\* shouldSuggestReferences: loadConfig is called without await, so
\* configResult is the Promise and not the Result
ShouldSuggestReferences(configFile) ==
  LET configResult == PromiseOf(LoadConfig(configFile).res) IN
  IF Falsy(Property(configResult, "success")) THEN FALSE
  ELSE configResult.data[1].contextAwareSuggestions /\ configResult.data[1].enabled

TechKeywords ==
  <<<<"r","e","a","c","t">>, <<"v","u","e">>,
    <<"a","n","g","u","l","a","r">>, <<"s","v","e","l","t","e">>,
    <<"n","e","x","t">>, <<"r","e","m","i","x">>,
    <<"e","x","p","r","e","s","s">>, <<"k","o","a">>, <<"h","a","p","i">>,
    <<"p","y","t","h","o","n">>, <<"d","j","a","n","g","o">>,
    <<"f","l","a","s","k">>, <<"f","a","s","t","a","p","i">>,
    <<"p","y","t","e","s","t">>, <<"n","u","m","p","y">>,
    <<"p","a","n","d","a","s">>, <<"t","y","p","e","s","c","r","i","p","t">>,
    <<"j","a","v","a","s","c","r","i","p","t">>, <<"n","o","d","e">>,
    <<"n","p","m">>, <<"w","e","b","p","a","c","k">>, <<"v","i","t","e">>,
    <<"b","a","b","e","l">>, <<"g","o">>, <<"r","u","s","t">>,
    <<"c","a","r","g","o">>, <<"j","a","v","a">>, <<"m","a","v","e","n">>,
    <<"g","r","a","d","l","e">>, <<"s","p","r","i","n","g">>,
    <<"d","o","c","k","e","r">>, <<"k","u","b","e","r","n","e","t","e","s">>,
    <<"a","w","s">>, <<"a","z","u","r","e">>, <<"g","c","p">>,
    <<"f","i","r","e","b","a","s","e">>, <<"s","u","p","a","b","a","s","e">>,
    <<"m","o","n","g","o","d","b">>,
    <<"p","o","s","t","g","r","e","s","q","l">>, <<"m","y","s","q","l">>,
    <<"r","e","d","i","s">>, <<"g","r","a","p","h","q","l">>,
    <<"r","e","s","t">>, <<"a","p","i">>,
    <<"t","a","i","l","w","i","n","d">>,
    <<"b","o","o","t","s","t","r","a","p">>, <<"c","s","s">>,
    <<"h","t","m","l">>, <<"s","c","s","s">>, <<"s","a","s","s">>>>

FeatureKeywords ==
  <<<<"a","u","t","h">>,
    <<"a","u","t","h","e","n","t","i","c","a","t","i","o","n">>,
    <<"l","o","g","i","n">>, <<"r","e","g","i","s","t","e","r">>,
    <<"u","s","e","r">>, <<"p","r","o","f","i","l","e">>,
    <<"r","o","u","t","i","n","g">>, <<"r","o","u","t","e","r">>,
    <<"p","a","g","e","s">>, <<"n","a","v","i","g","a","t","i","o","n">>,
    <<"m","e","n","u">>, <<"s","i","d","e","b","a","r">>, <<"a","p","i">>,
    <<"b","a","c","k","e","n","d">>, <<"s","e","r","v","e","r">>,
    <<"e","n","d","p","o","i","n","t">>, <<"r","e","s","t">>,
    <<"g","r","a","p","h","q","l">>, <<"c","o","m","p","o","n","e","n","t">>,
    <<"u","i">>, <<"f","r","o","n","t","e","n","d">>,
    <<"c","l","i","e","n","t">>, <<"i","n","t","e","r","f","a","c","e">>,
    <<"d","e","s","i","g","n">>, <<"t","e","s","t">>,
    <<"t","e","s","t","i","n","g">>, <<"u","n","i","t">>,
    <<"i","n","t","e","g","r","a","t","i","o","n">>, <<"e","2","e">>,
    <<"c","y","p","r","e","s","s">>, <<"d","a","t","a","b","a","s","e">>,
    <<"d","b">>, <<"s","q","l">>, <<"n","o","s","q","l">>,
    <<"m","i","g","r","a","t","i","o","n">>, <<"s","e","e","d">>,
    <<"d","e","p","l","o","y","m","e","n","t">>, <<"d","e","p","l","o","y">>,
    <<"c","i","c","d">>, <<"g","i","t","h","u","b">>,
    <<"a","c","t","i","o","n","s">>, <<"p","i","p","e","l","i","n","e">>,
    <<"a","d","m","i","n">>, <<"d","a","s","h","b","o","a","r","d">>,
    <<"m","a","n","a","g","e","m","e","n","t">>, <<"c","m","s">>,
    <<"b","l","o","g">>, <<"c","o","n","t","e","n","t">>>>

DomainKeywords ==
  <<[domain |-> <<"e","-","c","o","m","m","e","r","c","e">>,
     keywords |-> <<<<"s","h","o","p">>, <<"s","t","o","r","e">>, <<"c","a","r","t">>, <<"c","h","e","c","k","o","u","t">>, <<"p","a","y","m","e","n","t">>, <<"p","r","o","d","u","c","t">>>>],
    [domain |-> <<"f","i","n","t","e","c","h">>,
     keywords |-> <<<<"b","a","n","k">>, <<"p","a","y","m","e","n","t">>, <<"w","a","l","l","e","t">>, <<"t","r","a","n","s","f","e","r">>, <<"f","i","n","a","n","c","e">>>>],
    [domain |-> <<"a","d","m","i","n","-","d","a","s","h","b","o","a","r","d">>,
     keywords |-> <<<<"a","d","m","i","n">>, <<"d","a","s","h","b","o","a","r","d">>, <<"m","a","n","a","g","e","m","e","n","t">>, <<"p","a","n","e","l">>>>],
    [domain |-> <<"s","o","c","i","a","l","-","m","e","d","i","a">>,
     keywords |-> <<<<"s","o","c","i","a","l">>, <<"p","r","o","f","i","l","e">>, <<"f","e","e","d">>, <<"p","o","s","t">>, <<"m","e","s","s","a","g","e">>>>],
    [domain |-> <<"m","e","s","s","a","g","i","n","g">>,
     keywords |-> <<<<"c","h","a","t">>, <<"m","e","s","s","a","g","e">>, <<"n","o","t","i","f","i","c","a","t","i","o","n">>, <<"r","e","a","l","-","t","i","m","e">>>>],
    [domain |-> <<"c","o","n","t","e","n","t","-","m","a","n","a","g","e","m","e","n","t">>,
     keywords |-> <<<<"b","l","o","g">>, <<"c","m","s">>, <<"c","o","n","t","e","n","t">>, <<"a","r","t","i","c","l","e">>, <<"p","o","s","t">>>>],
    [domain |-> <<"b","a","c","k","e","n","d","-","a","p","i">>,
     keywords |-> <<<<"a","p","i">>, <<"s","e","r","v","e","r">>, <<"b","a","c","k","e","n","d">>, <<"e","n","d","p","o","i","n","t">>, <<"s","e","r","v","i","c","e">>>>],
    [domain |-> <<"m","o","b","i","l","e">>,
     keywords |-> <<<<"m","o","b","i","l","e">>, <<"a","p","p">>, <<"i","o","s">>, <<"a","n","d","r","o","i","d">>, <<"r","e","a","c","t","-","n","a","t","i","v","e">>>>]>>

\* keywords.some(keyword => messageLower.includes(keyword)), first domain wins
DetectedDomain(messageLower) ==
  LET hits == {i \in 1..Len(DomainKeywords) :
                 \E k \in 1..Len(DomainKeywords[i].keywords) :
                   Includes(messageLower, DomainKeywords[i].keywords[k])}
  IN IF hits = {} THEN wGeneral
     ELSE DomainKeywords[CHOOSE i \in hits : \A j \in hits : i <= j].domain

\* [...new Set(list)]: the first occurrence of each entry, in order
Dedupe(list) ==
  SelectSeq([i \in 1..Len(list) |-> [at |-> i, v |-> list[i]]],
            LAMBDA e : \A j \in 1..(e.at - 1) : list[j] # e.v)

AnalyzeConversationForRelevance(message) ==
  LET messageLower == ToLowerCase(message)
      detectedTech == SelectSeq(TechKeywords, LAMBDA tech :
                        Includes(messageLower, ToLowerCase(tech)))
      detectedFeatures == SelectSeq(FeatureKeywords, LAMBDA feature :
                            Includes(messageLower, ToLowerCase(feature)))
      tech == Dedupe(detectedTech)
      features == Dedupe(detectedFeatures)
  IN [techStack |-> [i \in 1..Len(tech) |-> tech[i].v],
      features |-> [i \in 1..Len(features) |-> features[i].v],
      domain |-> DetectedDomain(messageLower)]

\* minRelevanceScore of the search, and the number of references listed
SuggestionMinScore == 60
MaxSuggested == 3

\* ref.description || ref.domain
Label(ref) == IF ref.description # <<>> THEN ref.description ELSE ref.domain

\* the text "[REFERENCE] Found similar projects for your "<domain>" work with
\* <techStack>:" and one line "- [name](url) - label project" per reference,
\* held as its parts
SuggestionText(relevance, topReferences) ==
  [domain |-> relevance.domain, techStack |-> relevance.techStack,
   lines |-> [i \in 1..Len(topReferences) |->
                [name |-> topReferences[i].name, url |-> topReferences[i].url,
                 label |-> Label(topReferences[i])]]]

\* generateContextualSuggestion: the suggestion, or no value for null; the
\* configuration file and the document as the call leaves them
GenerateContextualSuggestion(configFile, f, message, t) ==
  LET config == LoadConfig(configFile).file
      relevance == AnalyzeConversationForRelevance(message)
      hasRelevantKeywords == \/ Len(relevance.techStack) > 0
                             \/ Len(relevance.features) > 0
                             \/ relevance.domain # wGeneral
      searchResult == SearchReferences(f,
                        [NoCriteria EXCEPT !.techStack = <<relevance.techStack>>,
                                           !.features = <<relevance.features>>,
                                           !.domain = <<relevance.domain>>,
                                           !.minRelevanceScore = <<SuggestionMinScore>>], t)
  IN IF ~ShouldSuggestReferences(configFile)
     THEN [config |-> config, file |-> f, suggestion |-> <<>>]
     ELSE IF ~hasRelevantKeywords
     THEN [config |-> config, file |-> f, suggestion |-> <<>>]
     ELSE IF ~searchResult.res.success \/ Len(searchResult.res.data[1]) = 0
     THEN [config |-> config, file |-> searchResult.file, suggestion |-> <<>>]
     ELSE [config |-> config, file |-> searchResult.file,
           suggestion |-> <<SuggestionText(relevance,
                              Slice(searchResult.res.data[1], MaxSuggested))>>]

\* .opencode/dpr.jsonc as the user left it
ConfigFiles ==
  {[kind |-> "absent", value |-> <<>>], [kind |-> "corrupt", value |-> <<>>],
   [kind |-> "json", value |-> <<[autoResearch |-> TRUE]>>],
   [kind |-> "json", value |-> <<[enabled |-> FALSE]>>],
   [kind |-> "json", value |-> <<[enabled |-> TRUE, contextAwareSuggestions |-> TRUE]>>],
   [kind |-> "json", value |-> <<[contextAwareSuggestions |-> FALSE]>>]}

\* messages of the conversation: tech and feature keywords without a domain
\* keyword, no keyword, and keywords of all three kinds
Messages ==
  {<<"H","o","w"," ","d","o"," ","I"," ","h","a","n","d","l","e"," ","r","o","u","t","i","n","g"," ","i","n"," ","R","e","a","c","t","?">>,
   <<"H","e","l","l","o">>,
   <<"v","u","e"," ","a","p","i">>}

Suggest ==
  \E configFile \in ConfigFiles, message \in Messages :
    /\ Ready
    /\ LET g == GenerateContextualSuggestion(configFile, file, message, now) IN
       /\ file' = g.file
       /\ ret' = [Call("suggest") EXCEPT
                    !.config = <<configFile>>, !.configAfter = <<g.config>>,
                    !.message = message, !.suggestion = g.suggestion]
    /\ UNCHANGED <<now, pc, loc>>

NextSuggest == Add \/ Suggest \/ Return \/ Tick

SpecSuggest == Init /\ [][NextSuggest]_vars


----------------------------------------------------------------------------
(* The plugin's event hook and handleSessionCreated (index.ts).  The        *)
(* handler runs from one await to the next; ret.log lists, in order, the    *)
(* calls it has made and whether each succeeded.  showToast and             *)
(* session.prompt are calls to the host, which may reject.                  *)

EventTypes == {"session.created", "session.idle"}

\* ctx.directory: a project root that is missing, or one with a
\* package.json and no other file, and none or all of the catalog's paths
SessionProjects ==
  {project \in Projects :
     \/ project = MissingProject
     \/ /\ project.name = wApp
        /\ \A f \in ProjectFiles \ {"package.json"} : project.files[f] = NoFile
        /\ project.paths \in {{}, AllPaths}}

\* { maxResults: 10, minStars: 10 }
SessionOptions == [maxResults |-> <<10>>, minStars |-> <<10>>]

Logged(step, title, ok) == [step |-> step, title |-> title, ok |-> ok]

\* event: async ({ event }) => { if (event.type === "session.created") ... }
Event ==
  \E type \in EventTypes, project \in SessionProjects :
    /\ Ready
    /\ pc[1] = "idle"
    /\ ret' = [Call("event") EXCEPT !.event = type, !.project = <<project>>]
    /\ pc' = [pc EXCEPT ![1] = IF type = "session.created" THEN "analyze" ELSE "done"]
    /\ UNCHANGED <<file, now, loc>>

\* if (!projectAnalysis.success) { toast; return }
AfterAnalyze(projectAnalysis) ==
  IF ~projectAnalysis.success THEN "toastAnalysisFailed" ELSE "toastStarted"

\* if (!searchResult.success) { toast; return }
AfterSearch(searchResult) ==
  IF ~searchResult.success THEN "toastResearchFailed" ELSE "save"

\* mutant: the result of addReferences is not looked at
AfterSaveUnchecked(addResult) == "toastComplete"

\* if (!addResult.success) { toast; return }
AfterSave(addResult) ==
  IF ~addResult.success THEN "toastStorageFailed" ELSE "toastComplete"

\* await analyzeProject(ctx.directory)
SessionAnalyze ==
  /\ pc[1] = "analyze"
  /\ LET projectAnalysis == AnalyzeProject(ret.project[1]).res IN
     /\ ret' = [ret EXCEPT !.res = projectAnalysis,
                           !.log = Append(@, Logged("analyze", "", projectAnalysis.success))]
     /\ pc' = [pc EXCEPT ![1] = AfterAnalyze(projectAnalysis)]
  /\ UNCHANGED <<file, now, loc>>

\* await searchSimilarProjects(techStack, features, domain, options)
SessionSearch ==
  /\ pc[1] = "search"
  /\ LET data == ret.res.data[1]
         searchResult == SearchSimilarProjects(
                           [techStack |-> data.techStack, features |-> data.features,
                            domain |-> data.domain], SessionOptions, now).res
     IN /\ ret' = [ret EXCEPT !.found = searchResult,
                              !.log = Append(@, Logged("search", "", searchResult.success))]
        /\ pc' = [pc EXCEPT ![1] = AfterSearch(searchResult)]
  /\ UNCHANGED <<file, now, loc>>

\* await addReferences(ctx.directory, searchResult.data)
SessionSave ==
  /\ pc[1] = "save"
  /\ LET a == AddReferences(file, ret.found.data[1], now) IN
     /\ file' = a.file
     /\ ret' = [ret EXCEPT !.log = Append(@, Logged("save", "", a.res.success))]
     /\ pc' = [pc EXCEPT ![1] = AfterSave(a.res)]
  /\ UNCHANGED <<now, loc>>

\* the toasts of the handler: the title shown and where the handler goes on
Toasts ==
  [toastAnalysisFailed |-> [title |-> "Analysis Failed", next |-> "done"],
   toastStarted |-> [title |-> "Auto-Research Started", next |-> "search"],
   toastResearchFailed |-> [title |-> "Research Failed", next |-> "done"],
   toastStorageFailed |-> [title |-> "Storage Failed", next |-> "done"],
   toastComplete |-> [title |-> "Auto-Research Complete", next |-> "prompt"],
   toastError |-> [title |-> "Auto-Research Error", next |-> "done"]]

\* catch (error) { await showToast("Auto-Research Error") }: a rejection
\* inside the try goes to the catch block, one inside the catch block ends
\* the handler
Rejected(position) == IF position = "toastError" THEN "done" ELSE "toastError"

\* await ctx.client.tui.showToast(...)
ShowToast ==
  \E ok \in BOOLEAN :
    /\ pc[1] \in DOMAIN Toasts
    /\ ret' = [ret EXCEPT !.log = Append(@, Logged("toast", Toasts[pc[1]].title, ok))]
    /\ pc' = [pc EXCEPT ![1] = IF ok THEN Toasts[pc[1]].next ELSE Rejected(pc[1])]
    /\ UNCHANGED <<file, now, loc>>

\* await ctx.client.session.prompt(...)
SessionPrompt ==
  \E ok \in BOOLEAN :
    /\ pc[1] = "prompt"
    /\ ret' = [ret EXCEPT !.log = Append(@, Logged("prompt", "", ok))]
    /\ pc' = [pc EXCEPT ![1] = IF ok THEN "done" ELSE Rejected(pc[1])]
    /\ UNCHANGED <<file, now, loc>>

\* the hook has returned
SessionEnd ==
  /\ pc[1] = "done"
  /\ ret' = NoCall
  /\ pc' = Idle
  /\ UNCHANGED <<file, now, loc>>
----------------------------------------------------------------------------
(* The same calls on a file system where the permission bits of the        *)
(* document change between calls (chmod by the user or another program).   *)

Chmod ==
  \E m \in Modes :
    /\ Ready
    /\ file.kind # "absent"
    /\ file.mode # m
    /\ file' = [file EXCEPT !.mode = m]
    /\ UNCHANGED <<now, ret, pc, loc>>

NextIO == Next \/ Chmod

SpecIO == Init /\ [][NextIO]_vars

\* sessions one after the other, the document's permissions changing between
NextSession ==
  \/ Event \/ SessionAnalyze \/ SessionSearch \/ SessionSave \/ ShowToast
  \/ SessionPrompt \/ SessionEnd \/ Chmod

SpecSession == Init /\ [][NextSession]_vars

----------------------------------------------------------------------------
(* Concurrent invocations on one backing document.  An invocation runs      *)
(* without interruption between two awaits; the awaits that touch the       *)
(* document are readFile, the writeFile of the empty structure and the      *)
(* writeFile of saveReferences, and each completes in one step.             *)

ConcNewReferenceLists == {l \in NewReferenceLists : l # <<>>}

ConcCalls ==
  {[NoLocal EXCEPT !.op = "add", !.newReferences = l] : l \in ConcNewReferenceLists}
  \cup {[NoLocal EXCEPT !.op = "updateTechStack", !.techStack = <<wReact, wTs>>],
        [NoLocal EXCEPT !.op = "cleanup", !.maxAge = 1],
        [NoLocal EXCEPT !.op = "load"],
        [NoLocal EXCEPT !.op = "search"]}

\* the document as earlier calls left it
InitConc ==
  /\ file \in {Absent, Corrupt,
               WriteFile(Absent, JSONStringify(EmptyData(StartDay))).file,
               WriteFile(Absent, JSONStringify(
                 [EmptyData(StartDay) EXCEPT !.references = <<RefA>>])).file}
  /\ now = StartDay
  /\ ret = NoCall
  /\ pc = Idle
  /\ loc = NoLocals

NoSaveYet == \A j \in Procs : loc[j].order = 0

\* what follows a completed loadReferences
AfterLoad(call) == IF call.op \in {"load", "search"} THEN "done" ELSE "save"

\* the value a call without save returns once its load is done
LoadedResult(call, data) ==
  IF call.op = "search" THEN Ok(SearchLoaded(data.references, call.criteria))
  ELSE IF call.op = "load" THEN Ok(data)
  ELSE call.res

\* an invocation is made and runs up to its readFile
ConcStart ==
  \E i \in Procs, call \in ConcCalls :
    /\ pc[i] = "idle"
    /\ pc' = [pc EXCEPT ![i] = "read"]
    /\ loc' = [loc EXCEPT ![i] = call]
    /\ UNCHANGED <<file, now, ret>>

\* readFile and JSON.parse of loadReferences
ConcRead ==
  \E i \in Procs :
    /\ pc[i] = "read"
    /\ LET r == ReadAndParse(file) IN
       IF r.ok
       THEN /\ pc' = [pc EXCEPT ![i] = AfterLoad(loc[i])]
            /\ loc' = [loc EXCEPT ![i].loaded = r.data,
                                  ![i].readBeforeSave = NoSaveYet,
                                  ![i].res = LoadedResult(loc[i], r.data[1])]
       ELSE /\ pc' = [pc EXCEPT ![i] = "writeEmpty"]
            /\ loc' = [loc EXCEPT ![i].emptyData = <<EmptyData(now)>>,
                                  ![i].readBeforeSave = NoSaveYet]
    /\ UNCHANGED <<file, now, ret>>

\* writeFile of the empty structure in loadReferences
ConcWriteEmpty ==
  \E i \in Procs :
    /\ pc[i] = "writeEmpty"
    /\ LET w == WriteFile(file, JSONStringify(loc[i].emptyData[1])) IN
       IF w.ok
       THEN /\ file' = w.file
            /\ pc' = [pc EXCEPT ![i] = AfterLoad(loc[i])]
            /\ loc' = [loc EXCEPT ![i].loaded = loc[i].emptyData,
                                  ![i].res = LoadedResult(loc[i], loc[i].emptyData[1])]
       ELSE /\ file' = file
            /\ pc' = [pc EXCEPT ![i] = "done"]
            /\ loc' = [loc EXCEPT ![i].res = Fail(Thrown("EACCES"))]
    /\ UNCHANGED <<now, ret>>

\* the data the invocation hands to saveReferences
ConcUpdatedData(call) ==
  CASE call.op = "add" -> AddUpdatedData(call.loaded[1], call.newReferences)
    [] call.op = "updateTechStack" -> TechUpdatedData(call.loaded[1], call.techStack)
    [] call.op = "cleanup" -> CleanupUpdatedData(call.loaded[1], call.maxAge, now)

\* writeFile of saveReferences, and the return of the invocation
ConcSave ==
  \E i \in Procs :
    /\ pc[i] = "save"
    /\ LET updatedData == ConcUpdatedData(loc[i])
           s == SaveReferences(file, updatedData, now)
       IN /\ file' = s.file
          /\ pc' = [pc EXCEPT ![i] = "done"]
          /\ loc' = [loc EXCEPT
                       ![i].order = 1 + Cardinality({j \in Procs : loc[j].order > 0}),
                       ![i].res = IF s.res.success /\ loc[i].op = "add"
                                  THEN Ok(updatedData) ELSE s.res]
    /\ UNCHANGED <<now, ret>>

NextConc == ConcStart \/ ConcRead \/ ConcWriteEmpty \/ ConcSave

SpecConc == InitConc /\ [][NextConc]_vars

----------------------------------------------------------------------------
(* Claims *)

Count(seq, x) == Cardinality({i \in 1..Len(seq) : seq[i] = x})

\* C1: after any sequence of store calls on a store that starts absent or
\* empty, the persisted reference list never holds two entries with the same
\* url.
C1_NoDuplicateUrls ==
  LET refs == StoredReferences(file) IN
  \A i, j \in 1..Len(refs) : i # j => refs[i].url # refs[j].url

\* C2: a reference whose lastUpdated does not parse is still in the store
\* after cleanupReferences, whatever maxAge is.
C2_UnparseableSurvivesCleanup ==
  (ret.op = "cleanup" /\ ret.res.success) =>
    \A r \in Range(StoredReferences(ret.before)) :
      DateParse(r.lastUpdated) = <<>> => r \in Range(StoredReferences(file))

\* The scenario of C3: a reference with techStack [react], features
\* [routing], domain framework, updated now, scored against
\* [react, typescript], [routing], framework.
C3_Scenario ==
  /\ ret.op = "score"
  /\ ret.reference[1].techStack = <<wreact>>
  /\ ret.reference[1].features = <<wRouting>>
  /\ ret.reference[1].domain = wFramework
  /\ ret.reference[1].lastUpdated = ToISOString(ret.at)
  /\ ret.target = [techStack |-> <<wreact, wTypescript>>, features |-> <<wRouting>>,
                   domain |-> wFramework]

\* C3 as stated: the scenario scores 100, made of 40 + 30 + 20 + 10.
C3_ScenarioScores100 ==
  C3_Scenario =>
    /\ ret.res.data[1] = 100
    /\ ScoreParts(ret.reference[1], ret.target, ret.at)
         = [tech |-> 40, feature |-> 30, domain |-> 20, recency |-> 10]

\* C3 amended: the scenario scores 50, made of 10 (one overlapping tech
\* entry) + 10 (one overlapping feature) + 20 (domain) + 10 (recency).
C3_ScenarioScores50 ==
  C3_Scenario =>
    /\ ret.res.data[1] = 50
    /\ ScoreParts(ret.reference[1], ret.target, ret.at)
         = [tech |-> 10, feature |-> 10, domain |-> 20, recency |-> 10]

C3_Witness == C3_Scenario /\ ret.res.success /\ ret.res.data[1] = 50

\* the entries of an incoming list whose url the existing list does not hold,
\* in input order
RECURSIVE NotYetStored(_, _)
NotYetStored(existing, incoming) ==
  IF incoming = <<>> THEN <<>>
  ELSE IF \E i \in 1..Len(existing) : existing[i].url = Head(incoming).url
       THEN NotYetStored(existing, Tail(incoming))
       ELSE <<Head(incoming)>> \o NotYetStored(existing, Tail(incoming))

\* C4: addReferences persists and returns the existing list, unchanged and in
\* order, followed by exactly the incoming references whose url was not in
\* the store, in input order; a store holding url a and an add of [a, b]
\* ends with exactly 2 references.
C4_AddAppendsUnseenUrls ==
  ret.op = "add" =>
    LET existing == StoredReferences(ret.before)
        expected == existing \o NotYetStored(existing, ret.newReferences)
    IN /\ ret.res.success
       /\ StoredReferences(file) = expected
       /\ ret.res.data[1].references = expected
       /\ SubSeq(StoredReferences(file), 1, Len(existing)) = existing
       /\ (/\ Len(existing) = 1 /\ existing[1].url = UrlA
           /\ Len(ret.newReferences) = 2
           /\ ret.newReferences[1].url = UrlA /\ ret.newReferences[2].url = UrlB)
          => Len(StoredReferences(file)) = 2

C4_Witness ==
  /\ ret.op = "add"
  /\ StoredReferences(ret.before) = <<RefA>>
  /\ ret.newReferences = <<RefA2, RefB>>
  /\ StoredReferences(file) = <<RefA, RefB>>

\* C5: adding the same list a second time, right after adding it, leaves the
\* store with the same number of references and the same urls.
C5_AddTwiceSameCount ==
  (ret.op = "add" /\ ret.again /\ ret.res.success) =>
    /\ Len(StoredReferences(file)) = Len(StoredReferences(ret.before))
    /\ Urls(StoredReferences(file)) = Urls(StoredReferences(ret.before))

C5_Witness ==
  /\ ret.op = "add" /\ ret.again /\ ret.res.success
  /\ ret.newReferences = <<RefA, RefB>>
  /\ StoredReferences(file) = <<RefA, RefB>>

\* C7: loadReferences on a document that does not exist or does not parse
\* returns success with an empty ReferencesData (no references, empty tech
\* stack, timestamp now), and that data is the document when the call
\* returns.
C7_LoadSynthesizesEmpty ==
  (ret.op = "load" /\ ret.before.kind \in {"absent", "corrupt"}) =>
    /\ ret.res.success
    /\ ret.res.data[1].references = <<>>
    /\ ret.res.data[1].currentTechStack = <<>>
    /\ ret.res.data[1].lastResearchDate = ToISOString(ret.at)
    /\ file.kind = "json"
    /\ file.value[1] = ret.res.data[1]

C7_Witness ==
  /\ ret.op = "load" /\ ret.before.kind = "corrupt"
  /\ ret.res.success /\ file.kind = "json"
  /\ StoredReferences(file) = <<>>

\* C8: when reading the document fails for another reason than absence or a
\* parse failure (permission denied), loadReferences returns a failure whose
\* error is a ReferenceManagerError wrapping the cause; it returns no empty
\* success and leaves the document as it was.
C8_ReadFailureSurfaces ==
  (ret.op = "load" /\ ret.before.kind = "json" /\ ~Readable(ret.before)) =>
    /\ ~ret.res.success
    /\ ret.res.error[1].name = "ReferenceManagerError"
    /\ ret.res.error[1].cause # <<>>
    /\ file = ret.before

\* a criterion is present when it is given and not empty
ContainsCI(hay, needle) == Includes(ToLowerCase(hay), ToLowerCase(needle))
Given(c) == c # <<>> /\ c[1] # <<>>

Satisfies(r, c) ==
  /\ Given(c.query) =>
       \/ ContainsCI(r.name, c.query[1])
       \/ ContainsCI(r.description, c.query[1])
       \/ \E i \in 1..Len(r.techStack) : ContainsCI(r.techStack[i], c.query[1])
       \/ \E i \in 1..Len(r.features) : ContainsCI(r.features[i], c.query[1])
       \/ ContainsCI(r.domain, c.query[1])
  /\ Given(c.techStack) =>
       \E i \in 1..Len(c.techStack[1]), j \in 1..Len(r.techStack) :
         ContainsCI(r.techStack[j], c.techStack[1][i])
  /\ Given(c.features) =>
       \E i \in 1..Len(c.features[1]), j \in 1..Len(r.features) :
         ContainsCI(r.features[j], c.features[1][i])
  /\ Given(c.domain) => ContainsCI(r.domain, c.domain[1])
  /\ c.minRelevanceScore # <<>> => r.relevanceScore >= c.minRelevanceScore[1]

\* C9: searchReferences returns exactly the stored references that satisfy
\* every criterion that is present, by case-insensitive substring match; an
\* absent criterion filters nothing.
C9_SearchReturnsExactlyMatches ==
  ret.op = "search" =>
    LET stored == StoredReferences(ret.before) IN
    /\ ret.res.success
    /\ \A r \in Range(stored) \cup Range(ret.res.data[1]) :
         Count(ret.res.data[1], r)
           = IF Satisfies(r, ret.criteria) THEN Count(stored, r) ELSE 0

C9_Witness ==
  /\ ret.op = "search"
  /\ ret.criteria = [NoCriteria EXCEPT !.query = <<wreact>>, !.minRelevanceScore = <<70>>]
  /\ Range(StoredReferences(ret.before)) = {RefA, RefA2, RefB}
  /\ ret.res.data[1] = <<RefA>>

\* C10: the list searchReferences returns is in non-increasing relevanceScore
\* order, and references of equal relevanceScore keep their store order.
C10_SearchSortedStable ==
  ret.op = "search" =>
    LET result == ret.res.data[1]
        kept == SelectSeq(StoredReferences(ret.before), LAMBDA r : r \in Range(result))
    IN /\ \A i, j \in 1..Len(result) :
            i < j => result[i].relevanceScore >= result[j].relevanceScore
       /\ \A x \in Range(result) :
            SelectSeq(result, LAMBDA r : r.relevanceScore = x.relevanceScore)
              = SelectSeq(kept, LAMBDA r : r.relevanceScore = x.relevanceScore)

C10_Witness ==
  /\ ret.op = "search"
  /\ StoredReferences(ret.before) = <<RefB, RefA2, RefA>>
  /\ ret.res.data[1] = <<RefB, RefA, RefA2>>

\* C6: two addReferences invocations on one document are not isolated.  When
\* both load before either saves, the document ends as the merge of the last
\* writer alone: what that writer loaded followed by its own new references,
\* and without the references only the other invocation added.
C6_LastWriterWins ==
  \A w, o \in Procs :
    (/\ w # o
     /\ pc[w] = "done" /\ pc[o] = "done"
     /\ loc[w].op = "add" /\ loc[o].op = "add"
     /\ loc[w].readBeforeSave /\ loc[o].readBeforeSave
     /\ loc[w].order = 2 /\ loc[o].order = 1)
    => LET loaded == loc[w].loaded[1].references IN
       /\ StoredReferences(file) = loaded \o NotYetStored(loaded, loc[w].newReferences)
       /\ \A r \in Range(loc[o].newReferences) :
            r.url \notin Urls(loaded) \cup Urls(loc[w].newReferences)
              => r \notin Range(StoredReferences(file))

\* both invocations loaded the empty document; RefA, added by the first
\* writer, is gone after the second writer saved
C6_Witness ==
  /\ pc[1] = "done" /\ pc[2] = "done"
  /\ loc[1].op = "add" /\ loc[1].newReferences = <<RefA>>
  /\ loc[2].op = "add" /\ loc[2].newReferences = <<RefB>>
  /\ loc[1].readBeforeSave /\ loc[2].readBeforeSave
  /\ loc[1].order = 1 /\ loc[2].order = 2
  /\ loc[1].res.success /\ loc[2].res.success
  /\ StoredReferences(file) = <<RefB>>

----------------------------------------------------------------------------
\* C11: calculateRelevanceScore returns a value between 0 and 100 inclusive,
\* for every reference and every target tech stack, feature list and domain.
C11_ScoreWithinBounds ==
  ret.op = "score" =>
    /\ ret.res.success
    /\ ret.res.data[1] \in 0..100

\* a candidate with 5 overlapping tech entries, 4 overlapping features, the
\* target's domain and an update today has been scored
C11_Witness ==
  /\ ret.op = "score"
  /\ Overlap(ret.reference[1].techStack, ret.target.techStack) = 5
  /\ Overlap(ret.reference[1].features, ret.target.features) = 4
  /\ ret.reference[1].domain = ret.target.domain /\ ret.target.domain # <<>>
  /\ ret.reference[1].lastUpdated = ToISOString(ret.at)
  /\ ret.res.data[1] = 100

----------------------------------------------------------------------------
\* C12: with features, domain and lastUpdated held fixed and the target the
\* same, a reference with a larger tech-stack overlap count never scores
\* lower than one with a smaller count, and the tech contribution stops
\* growing at 40 points.
C12_TechOverlapMonotoneCapped ==
  ret.op = "score" =>
    LET r == ret.reference[1]
        n == Overlap(r.techStack, ret.target.techStack)
    IN /\ ScoreParts(r, ret.target, ret.at).tech = (IF n < 4 THEN n * 10 ELSE 40)
       /\ \A other \in ScoreReferences(ret.at) :
            /\ other.features = r.features
            /\ other.domain = r.domain
            /\ other.lastUpdated = r.lastUpdated
            /\ Overlap(other.techStack, ret.target.techStack) >= n
            => CalculateRelevanceScore(other, ret.target, ret.at) >= ret.res.data[1]

\* a candidate with 5 overlapping tech entries has been scored, and the
\* candidate with 4 that is otherwise the same scores as much
C12_Witness ==
  /\ ret.op = "score"
  /\ Overlap(ret.reference[1].techStack, ret.target.techStack) = 5
  /\ \E other \in ScoreReferences(ret.at) :
       /\ other.features = ret.reference[1].features
       /\ other.domain = ret.reference[1].domain
       /\ other.lastUpdated = ret.reference[1].lastUpdated
       /\ Overlap(other.techStack, ret.target.techStack) = 4
       /\ CalculateRelevanceScore(other, ret.target, ret.at) = ret.res.data[1]

----------------------------------------------------------------------------
\* the words of a query: the pieces between its spaces
RECURSIVE Split(_)
Split(s) ==
  IF \A i \in 1..Len(s) : s[i] # " " THEN <<s>>
  ELSE LET i == CHOOSE k \in 1..Len(s) :
                  s[k] = " " /\ \A j \in 1..(k - 1) : s[j] # " "
       IN <<SubSeq(s, 1, i - 1)>> \o Split(SubSeq(s, i + 1, Len(s)))

FirstN(s, n) == SubSeq(s, 1, IF Len(s) < n THEN Len(s) ELSE n)

\* C13: the query built by constructSearchQuery is, word by word: the domain
\* (only when it is not "general"; an empty domain is left out as well), then
\* at most the first 3 tech entries, then at most the first 2 feature
\* entries, then "github", with single spaces in between.
C13_QueryShape ==
  ret.op = "similar" =>
    LET g == ret.target
        domainWords == IF g.domain = wGeneral \/ g.domain = wEmpty THEN <<>>
                       ELSE <<g.domain>>
    IN /\ Split(ret.query) =
            domainWords \o FirstN(g.techStack, 3) \o FirstN(g.features, 2) \o <<wGithub>>
       /\ Len(ret.query) >= Len(wGithub)
       /\ SubSeq(ret.query, Len(ret.query) - Len(wGithub) + 1, Len(ret.query)) = wGithub

\* a query has been built from 4 tech entries, 3 features and a domain that
\* is not "general": it names the domain, 3 tech entries and 2 features
C13_Witness ==
  /\ ret.op = "similar"
  /\ Len(ret.target.techStack) = 4
  /\ Len(ret.target.features) = 3
  /\ ret.target.domain = wFramework
  /\ Split(ret.query) =
       <<wFramework, wreact, wTypescript, wTailwind, wRouting, wApi, wGithub>>

----------------------------------------------------------------------------
\* C14: every reference returned by searchSimilarProjects carries the
\* relevanceScore calculateRelevanceScore gives it against the target, the
\* list is in non-increasing score order, and it has no more entries than
\* the maxResults the caller supplied.
C14_RescoredSortedLimited ==
  ret.op = "similar" =>
    LET refs == ret.res.data[1] IN
    /\ \A i \in 1..Len(refs) :
         refs[i].relevanceScore = CalculateRelevanceScore(refs[i], ret.target, ret.at)
    /\ \A i \in 1..(Len(refs) - 1) : refs[i].relevanceScore >= refs[i + 1].relevanceScore
    /\ ret.options.maxResults # <<>> => Len(refs) <= ret.options.maxResults[1]

----------------------------------------------------------------------------
\* C15: a successful addReferences, updateTechStack or cleanupReferences
\* leaves a document whose lastResearchDate is the time of the call, and
\* that is never earlier than the lastResearchDate the document had before.
C15_WriteStampsNow ==
  (ret.op \in {"add", "updateTechStack", "cleanup"} /\ ret.res.success) =>
    /\ file.kind = "json"
    /\ file.value[1].lastResearchDate = ToISOString(ret.at)
    /\ ret.before.kind = "json" =>
         /\ ret.before.value[1].lastResearchDate.valid
         /\ ret.before.value[1].lastResearchDate.t <= file.value[1].lastResearchDate.t

\* a document stamped on one day has been rewritten on a later day
C15_Witness ==
  /\ ret.op \in {"add", "updateTechStack", "cleanup"}
  /\ ret.res.success
  /\ ret.before.kind = "json"
  /\ ret.before.value[1].lastResearchDate = ToISOString(StartDay)
  /\ ret.at > StartDay
  /\ file.value[1].lastResearchDate = ToISOString(ret.at)

----------------------------------------------------------------------------
(* Claims about the project analyzer *)

\* the manifest the parser of a language reads (none for the other languages)
ManifestOf(language) ==
  CASE language = "JavaScript/TypeScript" -> <<"package.json">>
    [] language = "Python" -> <<"requirements.txt">>
    [] language = "Go" -> <<"go.mod">>
    [] language = "Rust" -> <<"Cargo.toml">>
    [] OTHER -> <<>>

\* the first marker file present decides the language
FirstMarker(project) ==
  IF project.root = "dir" /\ \E i \in 1..Len(CommonFiles) :
                               project.files[CommonFiles[i].file].kind # "absent"
  THEN <<CommonFiles[CHOOSE i \in 1..Len(CommonFiles) :
                       /\ project.files[CommonFiles[i].file].kind # "absent"
                       /\ \A j \in 1..(i - 1) :
                            project.files[CommonFiles[j].file].kind = "absent"]>>
  ELSE <<>>

\* the manifest of the detected language is missing, unreadable or malformed
ChosenParserFails(project) ==
  /\ FirstMarker(project) # <<>>
  /\ LET manifest == ManifestOf(FirstMarker(project)[1].language) IN
     /\ manifest # <<>>
     /\ LET f == project.files[manifest[1]] IN
        \/ f.kind \in {"absent", "unreadable"}
        \/ manifest[1] = "package.json" /\ (f.json = <<>> \/ ~f.json[1].isObject)

\* C16: when the manifest parser chosen by the language detection fails, no
\* other parser is tried and analyzeProject returns a failure with no
\* profile; a profile is returned only when the chosen parser succeeded.
C16_NoRetryNoPartialProfile ==
  ret.op = "analyze" =>
    LET project == ret.project[1] IN
    /\ Len(ret.parsers) <= 1
    /\ ChosenParserFails(project) =>
         /\ Len(ret.parsers) = 1
         /\ ~ret.res.success
         /\ ret.res.data = <<>>
         /\ ret.res.error # <<>>
    /\ ret.res.success => ~ChosenParserFails(project) /\ ret.res.data # <<>>

\* a project whose package.json does not parse and whose requirements.txt is
\* fine has been analyzed: only the package manifest parser ran
C16_Witness ==
  /\ ret.op = "analyze"
  /\ ret.project[1].files["package.json"] = Malformed
  /\ ret.project[1].files["requirements.txt"] = TextFile(RequirementsLines)
  /\ ret.parsers = <<"parsePackageJson">>
  /\ ~ret.res.success

\* C17: when a manifest is malformed or unreadable, the error analyzeProject
\* reports is a ProjectAnalysisError whose cause holds the original error.
C17_ErrorCarriesCause ==
  (ret.op = "analyze" /\ ChosenParserFails(ret.project[1])) =>
    /\ ~ret.res.success
    /\ ret.res.error[1].name = "ProjectAnalysisError"
    /\ ret.res.error[1].cause # <<>>

ContainsFrameworkKeyword(dep) ==
  \E i \in 1..Len(FrameworkKeywords) : Includes(dep, FrameworkKeywords[i])

IsTypesPackage(dep) == Len(dep) >= 7 /\ SubSeq(dep, 1, 7) = TypesPrefix

\* C18: for a package manifest the dependency list is the merged key set of
\* dependencies, devDependencies and peerDependencies; a name is a framework
\* iff it contains a framework keyword, and otherwise a library unless it is
\* an @types/ package; {dependencies: {react}, devDependencies: {jest}} gives
\* frameworks [react], libraries [jest] and a techStack with react and jest.
C18_PackageManifestClassified ==
  (ret.op = "analyze" /\ ret.parsers = <<"parsePackageJson">> /\ ret.analysis # <<>>) =>
    LET manifest == ret.project[1].files["package.json"].json[1]
        a == ret.analysis[1]
    IN /\ Range(a.dependencies) = Range(manifest.dependencies)
            \cup Range(manifest.devDependencies) \cup Range(manifest.peerDependencies)
       /\ \A i, j \in 1..Len(a.dependencies) :
            a.dependencies[i] = a.dependencies[j] => i = j
       /\ \A dep \in Range(a.dependencies) :
            /\ dep \in Range(a.frameworks) <=> ContainsFrameworkKeyword(dep)
            /\ dep \in Range(a.libraries) <=>
                 ~ContainsFrameworkKeyword(dep) /\ ~IsTypesPackage(dep)
       /\ Range(a.frameworks) \cup Range(a.libraries) \subseteq Range(a.dependencies)
       /\ manifest = Manifest(<<wreact>>, <<wJest>>, <<>>) =>
            /\ a.frameworks = <<wreact>>
            /\ a.libraries = <<wJest>>
            /\ ret.res.success
            /\ {wreact, wJest} \subseteq Range(ret.res.data[1].techStack)

\* a manifest with @types/react (a framework by its name), @types/node
\* (neither framework nor library) and react declared twice has been parsed
C18_Witness ==
  /\ ret.op = "analyze"
  /\ ret.analysis # <<>>
  /\ ret.project[1].files["package.json"].json =
       <<Manifest(<<wreact, wTypescript>>, <<wTypesReact, wTypesNode, wJest>>, <<wreact>>)>>
  /\ ret.analysis[1].dependencies = <<wreact, wTypescript, wTypesReact, wTypesNode, wJest>>
  /\ ret.analysis[1].frameworks = <<wreact, wTypesReact>>
  /\ ret.analysis[1].libraries = <<wTypescript, wJest>>

\* C19: for a package.json that declares dependencies d1..dn (and nothing
\* else) the techStack of the profile is exactly <<d1, ..., dn>>.
C19_TechStackIsDependencies ==
  (ret.op = "analyze" /\ ret.res.success /\ ret.parsers = <<"parsePackageJson">>) =>
    LET manifest == ret.project[1].files["package.json"].json[1] IN
    (manifest.devDependencies = <<>> /\ manifest.peerDependencies = <<>>) =>
      ret.res.data[1].techStack = manifest.dependencies

----------------------------------------------------------------------------
\* the entries of a list that are, case-insensitively, a substring of a target
Contained(entries, targets) ==
  {i \in 1..Len(entries) :
     \E j \in 1..Len(targets) : Includes(ToLowerCase(targets[j]), ToLowerCase(entries[i]))}

\* C23: calculateRelevanceScore returns min(10t, 40) + min(10f, 30) + d + r:
\* t and f count the reference's tech entries and features contained in a
\* target entry, d is 20 iff the domains are equal and non-empty, r is 10
\* below 30 days since the update, 5 below 90, else 0, and 0 when
\* lastUpdated does not parse.
C23_ScoreFormula ==
  ret.op = "score" =>
    LET reference == ret.reference[1]
        t == Cardinality(Contained(reference.techStack, ret.target.techStack))
        f == Cardinality(Contained(reference.features, ret.target.features))
        d == IF reference.domain = ret.target.domain /\ Len(reference.domain) > 0
             THEN 20 ELSE 0
        r == IF ~reference.lastUpdated.valid THEN 0
             ELSE IF ret.at - reference.lastUpdated.t < 30 THEN 10
             ELSE IF ret.at - reference.lastUpdated.t < 90 THEN 5
             ELSE 0
    IN ret.res.data[1] = (IF 10 * t < 40 THEN 10 * t ELSE 40)
                         + (IF 10 * f < 30 THEN 10 * f ELSE 30) + d + r

\* a candidate whose lastUpdated does not parse, with 2 overlapping tech
\* entries, 1 overlapping feature and the target's domain, has scored 50
C23_Witness ==
  /\ ret.op = "score"
  /\ ret.reference[1].lastUpdated = NotADate
  /\ Cardinality(Contained(ret.reference[1].techStack, ret.target.techStack)) = 2
  /\ Cardinality(Contained(ret.reference[1].features, ret.target.features)) = 1
  /\ ret.reference[1].domain = wFramework /\ ret.target.domain = wFramework
  /\ ret.res.data[1] = 50

----------------------------------------------------------------------------
RECURSIVE KeptByAge(_, _)
\* the references of a list updated on or after a day, in their order
KeptByAge(references, day) ==
  IF references = <<>> THEN <<>>
  ELSE (IF Head(references).lastUpdated.valid /\ Head(references).lastUpdated.t >= day
        THEN <<Head(references)>> ELSE <<>>) \o KeptByAge(Tail(references), day)

----------------------------------------------------------------------------
\* C26: the ReferencesData a successful addReferences returns equals, field
\* for field (lastResearchDate included), the document the call persisted.
C26_ReturnedEqualsPersisted ==
  (ret.op = "add" /\ ret.res.success) =>
    /\ file.kind = "json"
    /\ ret.res.data[1] = file.value[1]

----------------------------------------------------------------------------
----------------------------------------------------------------------------
\* the entries of the name table whose keyword a text contains
NameHits(text) == {i \in 1..Len(DomainMap) : Includes(text, DomainMap[i].keyword)}

\* the entries of the feature table one of whose keywords is a feature
FeatureHits(features) ==
  {i \in 1..Len(FeatureDomainMap) :
     \E k \in 1..Len(FeatureDomainMap[i].keywords) :
       \E n \in 1..Len(features) : features[n] = FeatureDomainMap[i].keywords[k]}

\* the entries of the name table whose keyword the lowercased README contains
ReadmeHits(project) ==
  IF project.files["README.md"].kind # "text" THEN {}
  ELSE UNION {NameHits(ToLowerCase(project.files["README.md"].lines[n])) :
                n \in 1..Len(project.files["README.md"].lines)}

Least(S) == CHOOSE i \in S : \A j \in S : i <= j

\* C21: the domain of the profile is the domain of the first name-table
\* keyword in the lowercased directory name; else that of the first
\* feature-table entry matching a detected feature; else that of the first
\* name-table keyword in the lowercased README; else "general", also when
\* the README is missing.
C21_DomainPrecedence ==
  (ret.op = "analyze" /\ ret.res.success) =>
    LET project == ret.project[1]
        byName == NameHits(ToLowerCase(project.name))
        byFeature == FeatureHits(ret.res.data[1].features)
        byReadme == ReadmeHits(project)
    IN ret.res.data[1].domain =
         IF byName # {} THEN DomainMap[Least(byName)].domain
         ELSE IF byFeature # {} THEN FeatureDomainMap[Least(byFeature)].domain
         ELSE IF byReadme # {} THEN DomainMap[Least(byReadme)].domain
         ELSE wGeneral

\* a project whose name has no keyword, with the feature api and a README
\* naming chat and blog, has been analyzed: the feature decides
C21_Witness ==
  /\ ret.op = "analyze"
  /\ ret.res.success
  /\ NameHits(ToLowerCase(ret.project[1].name)) = {}
  /\ wApi \in Range(ret.res.data[1].features)
  /\ Cardinality(ReadmeHits(ret.project[1])) = 2
  /\ ret.res.data[1].domain = <<"b","a","c","k","e","n","d","-","a","p","i">>

----------------------------------------------------------------------------
\* C30: with the features analyzeFeatures detects and a project name that
\* matches no name keyword, the feature step of extractDomain yields
\* "backend-api" iff the feature "api" was detected and no match otherwise:
\* "api" is the only keyword of the feature table that names a feature of
\* the catalog.
C30_FeatureStepOnlyBackendApi ==
  (ret.op = "analyze" /\ ret.res.success
     /\ NameHits(ToLowerCase(ret.project[1].name)) = {}) =>
    LET features == ret.res.data[1].features IN
    /\ \A n \in 1..Len(features) : \E i \in 1..Len(FeatureMap) :
         features[n] = FeatureMap[i].feature
    /\ FirstFeatureDomain(features) =
         IF wApi \in Range(features) THEN <<<<"b","a","c","k","e","n","d","-","a","p","i">>>>
         ELSE <<>>
    /\ wApi \in Range(features) =>
         ret.res.data[1].domain = <<"b","a","c","k","e","n","d","-","a","p","i">>
    /\ wApi \notin Range(features) =>
         ret.res.data[1].domain =
           IF ReadmeHits(ret.project[1]) # {}
           THEN DomainMap[Least(ReadmeHits(ret.project[1]))].domain ELSE wGeneral
    /\ \A i \in 1..Len(FeatureDomainMap) : \A k \in 1..Len(FeatureDomainMap[i].keywords) :
         (\E n \in 1..Len(FeatureMap) :
            FeatureMap[n].feature = FeatureDomainMap[i].keywords[k])
         => FeatureDomainMap[i].keywords[k] = wApi

\* every feature of the catalog was detected, and the domain is backend-api
C30_Witness ==
  /\ ret.op = "analyze"
  /\ ret.res.success
  /\ NameHits(ToLowerCase(ret.project[1].name)) = {}
  /\ Range(ret.res.data[1].features) = {FeatureMap[i].feature : i \in 1..Len(FeatureMap)}
  /\ ret.res.data[1].domain = <<"b","a","c","k","e","n","d","-","a","p","i">>

----------------------------------------------------------------------------
\* no two entries of the list have the same url
DistinctUrls(refs) == \A i, j \in 1..Len(refs) : i # j => refs[i].url # refs[j].url

\* C28: whatever the interleaving of concurrent addReferences,
\* updateTechStack and cleanupReferences on a document that starts free of
\* duplicate urls, when no add is given a list that repeats a url, every
\* document written is free of duplicate urls.
C28_ConcurrentWritesDuplicateFree ==
  (\A i \in Procs : loc[i].op = "add" => DistinctUrls(loc[i].newReferences))
    => DistinctUrls(StoredReferences(file))

\* two adds whose lists share a url both loaded before either saved, and
\* the document the second one wrote holds each url once
C28_Witness ==
  /\ pc[1] = "done" /\ pc[2] = "done"
  /\ loc[1].op = "add" /\ loc[1].newReferences = <<RefA2>>
  /\ loc[2].op = "add" /\ loc[2].newReferences = <<RefB, RefA>>
  /\ loc[1].readBeforeSave /\ loc[2].readBeforeSave
  /\ loc[1].order = 1 /\ loc[2].order = 2
  /\ loc[1].loaded[1].references = <<RefA>>
  /\ StoredReferences(file) = <<RefA, RefB>>

----------------------------------------------------------------------------
\* C29: a loadReferences or searchReferences invocation that completes
\* after a concurrent addReferences completed its write leaves the document
\* with no fewer references than that write stored.
C29_LoadNeverShrinksDocument ==
  [][\A i, j \in Procs :
       (/\ loc[i].op \in {"load", "search"}
        /\ pc[i] # "done" /\ pc'[i] = "done"
        /\ loc[j].op = "add" /\ pc[j] = "done" /\ loc[j].res.success)
       => Len(StoredReferences(file')) >= Len(loc[j].res.data[1].references)]_vars

----------------------------------------------------------------------------
\* the keywords analyzeConversationForRelevance recognises in the message
RecognisedKeywords(message) ==
  {k \in Range(TechKeywords) \cup Range(FeatureKeywords)
         \cup UNION {Range(DomainKeywords[i].keywords) : i \in 1..Len(DomainKeywords)} :
     Includes(ToLowerCase(message), k)}

\* the reference names the keyword in its tech stack, features or domain
MatchesKeyword(ref, k) ==
  \/ \E tech \in Range(ref.techStack) : Includes(ToLowerCase(tech), k)
  \/ \E feature \in Range(ref.features) : Includes(ToLowerCase(feature), k)
  \/ Includes(ToLowerCase(ref.domain), k)

\* C22: with enabled and contextAwareSuggestions true in the configuration,
\* a message holding a recognised keyword, and a stored reference matching
\* it with relevanceScore >= 60, generateContextualSuggestion returns a
\* suggestion (not null) that lists at most 3 references.
C22_SuggestionReturned ==
  (/\ ret.op = "suggest"
   /\ LoadConfig(ret.config[1]).res.data[1].enabled
   /\ LoadConfig(ret.config[1]).res.data[1].contextAwareSuggestions
   /\ \E k \in RecognisedKeywords(ret.message) :
        \E r \in Range(StoredReferences(ret.before)) :
          r.relevanceScore >= SuggestionMinScore /\ MatchesKeyword(r, k))
  => /\ ret.suggestion # <<>>
     /\ Len(ret.suggestion[1].lines) <= MaxSuggested

----------------------------------------------------------------------------
\* the positions in the log of the calls of one kind
Steps(step, title) ==
  {i \in 1..Len(ret.log) : ret.log[i].step = step /\ ret.log[i].title = title}

\* every call of the second kind comes after a successful call of the first
OnlyAfterSuccess(first, second) ==
  \A i \in second : \E j \in first : j < i /\ ret.log[j].ok

\* C25: on session.created the handler analyzes, then searches, then saves,
\* then notifies: each step runs at most once and only after the step before
\* it succeeded; when analysis or search fails the document is not written
\* and nothing later runs; the completion toast and the session prompt come
\* only after a successful save.  Other events start nothing.
C25_SessionStepsInOrder ==
  ret.op = "event" =>
    LET analyze == Steps("analyze", "")
        search == Steps("search", "")
        save == Steps("save", "")
        complete == Steps("toast", "Auto-Research Complete")
        prompt == Steps("prompt", "")
    IN /\ ret.event # "session.created" => ret.log = <<>> /\ file = ret.before
       /\ ret.log # <<>> => ret.log[1].step = "analyze"
       /\ \A steps \in {analyze, search, save, complete, prompt} : Cardinality(steps) <= 1
       /\ OnlyAfterSuccess(analyze, search)
       /\ OnlyAfterSuccess(search, save)
       /\ OnlyAfterSuccess(save, complete)
       /\ OnlyAfterSuccess(save, prompt)
       /\ OnlyAfterSuccess(complete, prompt)
       /\ (\E i \in analyze \cup search : ~ret.log[i].ok) =>
            /\ file = ret.before
            /\ \A i \in 1..Len(ret.log) :
                 ret.log[i].step \in {"analyze", "search"} \/ ret.log[i].title \in
                   {"Analysis Failed", "Research Failed", "Auto-Research Started",
                    "Auto-Research Error"}
       /\ save = {} => file = ret.before

\* a session ran to its prompt and the document gained references
C25_Witness ==
  /\ ret.op = "event"
  /\ pc[1] = "done"
  /\ Steps("prompt", "") # {}
  /\ ret.log[Len(ret.log)].ok
  /\ Len(StoredReferences(file)) > Len(StoredReferences(ret.before))

\* a session whose analysis failed: one error toast, nothing written
C25_AnalysisFailedWitness ==
  /\ ret.op = "event"
  /\ pc[1] = "done"
  /\ Len(ret.log) = 2
  /\ ~ret.log[1].ok
  /\ ret.log[2].title = "Analysis Failed"

\* a session whose save failed: no completion toast, no prompt
C25_StorageFailedWitness ==
  /\ ret.op = "event"
  /\ pc[1] = "done"
  /\ Steps("toast", "Storage Failed") # {}
  /\ Steps("toast", "Auto-Research Complete") = {}

====
